---- MODULE Spec2Model ----
(***************************************************************************)
(* User-account management service of the SOLID-SRP repository.            *)
(*                                                                         *)
(* One service instance is modelled.  `impl` records which class was       *)
(* instantiated: UserManager (user_manager.py) or the refactored           *)
(* UserService (refactored_example.py).  Every public method is one        *)
(* action; its body is a pure operator from the state before the call and  *)
(* the arguments to the state after it and the value returned or raised.   *)
(*                                                                         *)
(* Text (user names, e-mail addresses, passwords, digests, timestamps) is  *)
(* a sequence of one-character strings, so that the validators read it     *)
(* character by character as the regular expressions of the source do.     *)
(***************************************************************************)
EXTENDS Integers, Sequences, FiniteSets, TLC

VARIABLES impl, email_service, users, log_entries, now, ret, logs, disk, input, peer,
          threads

vars == <<impl, email_service, users, log_entries, now, ret, logs, disk, input, peer,
          threads>>

\* Number of calls made on the instance in one run.
MaxOps == 3

\* How many calls a run makes when it only creates, updates and deletes.
MaxCalls == 4

(***************************************************************************)
(* Inputs                                                                  *)
(***************************************************************************)
Ann == <<"a","n","n">>
Bob == <<"b","o","b">>
Usernames == {Ann, Bob}

\* "ann@ex.io", "a.b@cd.org": accepted; "no-at": rejected.
EmailAnn == <<"a","n","n","@","e","x",".","i","o">>
EmailAB == <<"a",".","b","@","c","d",".","o","r","g">>
EmailBad == <<"n","o","-","a","t">>
Emails == {EmailAnn, EmailAB, EmailBad}

\* "b@c.de": a one-character local part.
EmailOneChar == <<"b","@","c",".","d","e">>

\* "Passw0rd", "Secret12": strong; "weak": weak.
Passw0rd == <<"P","a","s","s","w","0","r","d">>
Secret12 == <<"S","e","c","r","e","t","1","2">>
Weak == <<"w","e","a","k">>
Passwords == {Passw0rd, Secret12, Weak}

\* The text a validator is handed when it is called on its own; none in a run
\* of calls on the service.
NoInput == <<>>

\* The passwords test_password_validation_patterns calls invalid: "short",
\* "alllowercase123", "ALLUPPERCASE123", "NoNumbers", "NoLetters123", "".
PwShort == <<"s","h","o","r","t">>
PwAllLower == <<"a","l","l","l","o","w","e","r","c","a","s","e","1","2","3">>
PwAllUpper == <<"A","L","L","U","P","P","E","R","C","A","S","E","1","2","3">>
PwNoNumbers == <<"N","o","N","u","m","b","e","r","s">>
PwNoLetters == <<"N","o","L","e","t","t","e","r","s","1","2","3">>
PwEmpty == <<>>
TestInvalidPasswords == {PwShort, PwAllLower, PwAllUpper, PwNoNumbers, PwNoLetters, PwEmpty}

\* "Password123" (one the test calls valid); "École1234", whose only uppercase
\* letter is not in A-Z; "ABCDEFGé1", whose only lowercase letter is not in a-z.
Password123 == <<"P","a","s","s","w","o","r","d","1","2","3">>
PwEcole == <<"É","c","o","l","e","1","2","3","4">>
PwAccent == <<"A","B","C","D","E","F","G","é","1">>
TestPasswords == TestInvalidPasswords \cup {Password123, PwEcole, PwAccent}

\* Every password of at most MaxPasswordLen characters over one uppercase
\* letter, one lowercase letter and one digit.
MaxPasswordLen == 8
PasswordAlphabet == {"A", "a", "1"}
GeneratedPasswords == {<<>>} \cup UNION {[1..n -> PasswordAlphabet] : n \in 1..MaxPasswordLen}
PasswordInputs == GeneratedPasswords \cup TestPasswords

\* The addresses test_email_validation_patterns calls valid: "user@example.com",
\* "user.name@example.com", "user+tag@example.co.uk", "user123@test-domain.com".
EmUser ==
    <<"u","s","e","r","@","e","x","a","m","p","l","e",".","c","o","m">>
EmUserName ==
    <<"u","s","e","r",".","n","a","m","e","@","e","x","a","m","p","l","e",".","c","o","m">>
EmUserTag ==
    <<"u","s","e","r","+","t","a","g","@","e","x","a","m","p","l","e",".","c","o",".","u","k">>
EmUser123 ==
    <<"u","s","e","r","1","2","3","@","t","e","s","t","-","d","o","m","a","i","n",".","c","o","m">>
TestValidEmails == {EmUser, EmUserName, EmUserTag, EmUser123}

\* The addresses it calls invalid: "invalid-email", "@example.com", "user@",
\* "user@.com", "user..name@example.com", "".
EmNoAt ==
    <<"i","n","v","a","l","i","d","-","e","m","a","i","l">>
EmNoLocal ==
    <<"@","e","x","a","m","p","l","e",".","c","o","m">>
EmNoDomain ==
    <<"u","s","e","r","@">>
EmDotDomain ==
    <<"u","s","e","r","@",".","c","o","m">>
EmDotDot ==
    <<"u","s","e","r",".",".","n","a","m","e","@","e","x","a","m","p","l","e",".","c","o","m">>
EmEmpty ==
    <<>>
TestInvalidEmails == {EmNoAt, EmNoLocal, EmNoDomain, EmDotDomain, EmDotDot, EmEmpty}

\* Every address of at most MaxEmailLen characters over a letter, the dot and
\* the at sign.
MaxEmailLen == 8
EmailAlphabet == {"a", ".", "@"}
GeneratedEmails == {<<>>} \cup UNION {[1..n -> EmailAlphabet] : n \in 1..MaxEmailLen}
\* "aa@a.aa" followed by a newline.
EmNewline == <<"a","a","@","a",".","a","a","\n">>
EmailInputs == GeneratedEmails \cup TestValidEmails \cup TestInvalidEmails \cup {EmNewline}

\* A creation time no call of the run reads from the clock.
OtherTime == <<"T","9","9">>
Nick == <<"n","i","c","k">>

(***************************************************************************)
(* Characters                                                              *)
(***************************************************************************)
Upper == {"A","B","C","D","E","F","G","H","I","J","K","L","M",
          "N","O","P","Q","R","S","T","U","V","W","X","Y","Z"}
Lower == {"a","b","c","d","e","f","g","h","i","j","k","l","m",
          "n","o","p","q","r","s","t","u","v","w","x","y","z"}
Digit == {"0","1","2","3","4","5","6","7","8","9"}
Alpha == Upper \cup Lower
Alnum == Alpha \cup Digit
LocalChars == Alnum \cup {".", "_", "+", "%", "-"}
DomainChars == Alnum \cup {".", "-"}

AllIn(s, C) == \A k \in 1..Len(s) : s[k] \in C

\* Positions at which `$` matches: the end, or just before a final newline.
DollarAt(s) ==
    {Len(s)} \cup (IF Len(s) > 0 /\ s[Len(s)] = "\n" THEN {Len(s) - 1} ELSE {})

(***************************************************************************)
(* Validators and digest                                                   *)
(***************************************************************************)
\* ^[a-zA-Z0-9][a-zA-Z0-9._+%-]*[a-zA-Z0-9]@[a-zA-Z0-9]([a-zA-Z0-9.-]*[a-zA-Z0-9])?\.[a-zA-Z]{2,}$
StrictEmailPattern(s) ==
    \E at \in 1..Len(s), dot \in 1..Len(s), end \in DollarAt(s) :
        /\ at < dot
        /\ s[at] = "@"
        /\ s[dot] = "."
        /\ LET local == SubSeq(s, 1, at - 1)
               dom == SubSeq(s, at + 1, dot - 1)
               ext == SubSeq(s, dot + 1, end)
           IN  /\ Len(local) >= 2
               /\ local[1] \in Alnum
               /\ local[Len(local)] \in Alnum
               /\ AllIn(local, LocalChars)
               /\ Len(dom) >= 1
               /\ dom[1] \in Alnum
               /\ dom[Len(dom)] \in Alnum
               /\ AllIn(dom, DomainChars)
               /\ Len(ext) >= 2
               /\ AllIn(ext, Alpha)

\* '..' in email
HasConsecutiveDots(s) == \E k \in 1..(Len(s) - 1) : s[k] = "." /\ s[k + 1] = "."

\* Variant: the pattern asks for one character before the '@', not two.
UserManager_is_valid_email_one(email) ==
    IF HasConsecutiveDots(email)
    THEN FALSE
    ELSE \/ StrictEmailPattern(email)
         \/ /\ Len(email) > 0
            /\ email[1] \in Alnum
            /\ StrictEmailPattern(<<email[1]>> \o email)

UserManager_is_valid_email(email) ==
    IF HasConsecutiveDots(email) THEN FALSE ELSE StrictEmailPattern(email)

\* Variant: a password needs nine characters.
UserManager_is_valid_password_nine(password) ==
    /\ ~(Len(password) < 9)
    /\ \E k \in 1..Len(password) : password[k] \in Upper
    /\ \E k \in 1..Len(password) : password[k] \in Lower
    /\ \E k \in 1..Len(password) : password[k] \in Digit

\* Variant: no digit is asked for.
UserManager_is_valid_password_nodigit(password) ==
    /\ ~(Len(password) < 8)
    /\ \E k \in 1..Len(password) : password[k] \in Upper
    /\ \E k \in 1..Len(password) : password[k] \in Lower

UserManager_is_valid_password(password) ==
    /\ ~(Len(password) < 8)
    /\ \E k \in 1..Len(password) : password[k] \in Upper
    /\ \E k \in 1..Len(password) : password[k] \in Lower
    /\ \E k \in 1..Len(password) : password[k] \in Digit

\* hashlib.sha256(password.encode()).hexdigest(), tabulated for the passwords
\* of the model (the values are those hashlib returns).
Sha256Hex(password) ==
    CASE password = Passw0rd ->
           <<"a","b","3","8","e","a","d","a","e","b","7","4","6","5","9","9",
             "f","2","c","1","e","e","9","0","f","8","2","6","7","f","3","1",
             "f","4","6","7","3","4","7","4","6","2","7","6","4","a","2","4",
             "d","7","1","a","c","1","8","4","3","e","e","7","7","f","e","3">>
      [] password = Secret12 ->
           <<"8","a","9","a","d","6","0","d","5","7","e","d","8","7","7","5",
             "f","5","a","6","1","c","8","2","f","4","6","0","b","0","4","8",
             "e","e","d","c","e","c","8","5","e","8","c","9","3","f","6","4",
             "1","c","2","e","5","2","9","0","2","1","8","8","e","e","7","6">>
      [] password = Weak ->
           <<"4","8","1","b","a","4","0","1","9","c","9","d","2","7","1","0",
             "c","3","3","8","6","5","3","7","3","8","2","5","9","2","c","0",
             "9","3","e","f","0","2","b","f","5","b","0","5","6","c","3","0",
             "2","3","7","b","3","d","9","2","b","0","e","1","9","a","1","d">>
      [] password = PwNoLetters ->
           <<"4","a","2","a","7","4","d","3","5","8","a","8","c","1","0","4",
             "9","6","1","3","7","6","e","d","4","b","c","a","d","e","0","2",
             "e","c","0","6","a","8","f","7","8","0","5","b","a","e","a","e",
             "8","7","c","7","6","c","d","9","f","7","1","f","4","a","a","9">>
      [] password = Password123 ->
           <<"0","0","8","c","7","0","3","9","2","e","3","a","b","f","b","d",
             "0","f","a","4","7","b","b","c","2","e","d","9","6","a","a","9",
             "9","b","d","4","9","e","1","5","9","7","2","7","f","c","b","a",
             "0","f","2","e","6","a","b","e","b","3","a","9","d","6","0","1">>
      [] password = PwNoNumbers ->
           <<"0","3","7","4","d","f","6","3","8","1","9","d","8","6","e","d",
             "9","6","2","3","c","1","8","8","7","c","b","8","f","4","e","e",
             "3","4","1","2","a","c","0","b","0","9","c","2","a","6","c","5",
             "8","2","f","1","f","7","3","5","8","2","9","e","b","c","4","6">>

\* Variant: the password is kept as it is.
UserManager_encrypt_password_plain(password) == password

UserManager_encrypt_password(password) == Sha256Hex(password)

(***************************************************************************)
(* Clock and audit log                                                     *)
(***************************************************************************)
DigitChars == <<"0","1","2","3","4","5","6","7","8","9">>

\* datetime.now().isoformat(): the text of the clock reading.
IsoFormat(t) == <<"T", DigitChars[((t \div 10) % 10) + 1], DigitChars[(t % 10) + 1]>>

\* Variant: the log keeps only its newest entry.
UserManager_log_overwrite(log, t, message) ==
    <<[timestamp |-> IsoFormat(t), message |-> message]>>

\* A message is the f-string's parts in order: literal, value, literal, ...
UserManager_log(log, t, message) ==
    Append(log, [timestamp |-> IsoFormat(t), message |-> message])

\* Variant: the welcome e-mail leaves no log entry.
UserManager_send_welcome_email_unlogged(log, t, email, username) == log

UserManager_send_welcome_email(log, t, email, username) ==
    UserManager_log(log, t, <<"Welcome email sent to ", email, ": Welcome ", username,
                              "! Your account has been created successfully.">>)

UserManager_send_goodbye_email(log, t, email, username) ==
    UserManager_log(log, t, <<"Goodbye email sent to ", email, ": Goodbye ", username,
                              "! Your account has been deleted.">>)

(***************************************************************************)
(* Python dict: entries in insertion order                                 *)
(***************************************************************************)
DictKeys(d) == {d[i].key : i \in 1..Len(d)}
DictHas(d, k) == \E i \in 1..Len(d) : d[i].key = k
DictGet(d, k) == d[CHOOSE i \in 1..Len(d) : d[i].key = k].value
DictSet(d, k, v) ==
    IF DictHas(d, k)
    THEN [i \in 1..Len(d) |-> IF d[i].key = k THEN [key |-> k, value |-> v] ELSE d[i]]
    ELSE Append(d, [key |-> k, value |-> v])
\* Variant: del forgotten.
DictDel_kept(d, k) == d

DictDel(d, k) == SelectSeq(d, LAMBDA e : e.key # k)
DictValues(d) == [i \in 1..Len(d) |-> d[i].value]

(***************************************************************************)
(* What a call hands back to its caller                                    *)
(***************************************************************************)
NoView == [k \in {} |-> <<>>]
NoName == <<>>
NoKwargs == [k \in {} |-> <<>>]

InvalidEmailMsg == "Invalid email format"
WeakPasswordMsg == "Password must be at least 8 characters with uppercase, lowercase, and number"
AlreadyExistsMsg == "User already exists"
NotFoundMsg == "User not found"

\* The arguments of a call, kept with its outcome.
Args(username, email, password, kwargs) ==
    [username |-> username, email |-> email, password |-> password, kwargs |-> kwargs]

Outcome(op, args, kind, exc, msg, view, flag, list) ==
    [op |-> op, args |-> args, kind |-> kind, exc |-> exc, msg |-> msg,
     view |-> view, flag |-> flag, list |-> list]

Raise(op, args, exc, msg) == Outcome(op, args, "raise", exc, msg, NoView, FALSE, <<>>)
ReturnView(op, args, view) == Outcome(op, args, "view", "", "", view, FALSE, <<>>)
ReturnNone(op, args) == Outcome(op, args, "none", "", "", NoView, FALSE, <<>>)
ReturnBool(op, args, flag) == Outcome(op, args, "bool", "", "", NoView, flag, <<>>)
ReturnList(op, args, list) == Outcome(op, args, "list", "", "", NoView, FALSE, list)

After(u, l, r) == [users |-> u, log |-> l, ret |-> r]

\* `logs` is what the caller holds from its last get_logs(): nothing yet, or a
\* reference to a list object.  Reading through a reference gives the list's
\* contents at the time of the read.
NoRef == "None"
RefLogEntries == "self.log_entries"
Deref(ref, log) == IF ref = RefLogEntries THEN log ELSE <<>>
ReturnRef(op, args) == Outcome(op, args, "ref", "", "", NoView, FALSE, <<>>)

\* `disk` is the file export_users_to_json writes: the mapping last dumped
\* into it, and how the last attempt to write it ended.
Filename == <<"u",".","j","s","o","n">>
NoFile == [written |-> "never", data |-> <<>>]
\* str(e) of the OSError open() raises when the file cannot be written.
OSErrorText == <<"E","r","r","n","o">>
\* with open(filename, 'w') as f: json.dump(data, f, indent=2)
JsonDump(file, data, ok) ==
    IF ok THEN [written |-> "ok", data |-> data]
          ELSE [written |-> "failed", data |-> file.data]

(***************************************************************************)
(* UserManager (user_manager.py)                                           *)
(***************************************************************************)
\* try: dump, log, return True; except Exception: log, return False.
UserManager_export_users_to_json(us, log, t, file, filename, ok) ==
    LET a == Args(NoName, NoName, NoName, NoKwargs)
    IN  [users |-> us,
         disk |-> JsonDump(file, us, ok),
         log |-> IF ok
                 THEN UserManager_log(log, t, <<"Users exported to ", filename>>)
                 ELSE UserManager_log(log, t, <<"Failed to export users: ", OSErrorText>>),
         ret |-> ReturnBool("export_users_to_json", a, ok)]

\* return self.log_entries: the list object itself, no copy and no log entry.
UserManager_get_logs(us, log) ==
    [users |-> us, log |-> log, ref |-> RefLogEntries,
     ret |-> ReturnRef("get_logs", Args(NoName, NoName, NoName, NoKwargs))]

\* Variant: the record starts inactive.
UserManager_user_data_inactive(username, email, encrypted_password, t) ==
    ("username" :> username @@ "email" :> email @@ "password" :> encrypted_password
     @@ "created_at" :> IsoFormat(t) @@ "is_active" :> FALSE)

UserManager_user_data(username, email, encrypted_password, t) ==
    ("username" :> username @@ "email" :> email @@ "password" :> encrypted_password
     @@ "created_at" :> IsoFormat(t) @@ "is_active" :> TRUE)

\* Variant: a failure path that raises without writing its log entry.
UserManager_create_failed_unlogged(us, log, t, a, reason, msg) ==
    After(us, log, Raise("create_user", a, "ValueError", msg))

\* Variant: the failure entry quotes the password.
UserManager_create_failed_leak(us, log, t, a, reason, msg) ==
    After(us,
          UserManager_log(log, t, <<"Failed to create user ", a.username, reason, a.password>>),
          Raise("create_user", a, "ValueError", msg))

\* A failure path of create_user: one log entry, then the ValueError.
UserManager_create_failed(us, log, t, a, reason, msg) ==
    After(us,
          UserManager_log(log, t, <<"Failed to create user ", a.username, reason>>),
          Raise("create_user", a, "ValueError", msg))

\* Variant: the welcome e-mail is sent before the success is logged.
UserManager_create_store_welcome_first(us, log, t, a) ==
    LET encrypted_password == UserManager_encrypt_password(a.password)
        user_data == UserManager_user_data(a.username, a.email, encrypted_password, t)
        log1 == UserManager_send_welcome_email(log, t, a.email, a.username)
    IN  After(DictSet(us, a.username, user_data),
              UserManager_log(log1, t, <<"User ", a.username, " created successfully">>),
              ReturnView("create_user", a, user_data))

\* The success path of create_user: digest, record, store, log, welcome e-mail.
UserManager_create_store(us, log, t, a) ==
    LET encrypted_password == UserManager_encrypt_password(a.password)
        user_data == UserManager_user_data(a.username, a.email, encrypted_password, t)
        log1 == UserManager_log(log, t, <<"User ", a.username, " created successfully">>)
    IN  After(DictSet(us, a.username, user_data),
              UserManager_send_welcome_email(log1, t, a.email, a.username),
              ReturnView("create_user", a, user_data))

\* Variant: the record is stored before the existence check.
UserManager_create_user_store_first(us, log, t, username, email, password) ==
    LET a == Args(username, email, password, NoKwargs)
    IN  IF ~UserManager_is_valid_email(email)
        THEN UserManager_create_failed(us, log, t, a, ": Invalid email", InvalidEmailMsg)
        ELSE IF ~UserManager_is_valid_password(password)
        THEN UserManager_create_failed(us, log, t, a, ": Weak password", WeakPasswordMsg)
        ELSE LET stored == UserManager_create_store(us, log, t, a)
             IN  IF DictHas(us, username)
                 THEN UserManager_create_failed(stored.users, log, t, a,
                                                ": User already exists", AlreadyExistsMsg)
                 ELSE stored

\* Variant: the existence check comes before the two validations.
UserManager_create_user_exists_first(us, log, t, username, email, password) ==
    LET a == Args(username, email, password, NoKwargs)
    IN  IF DictHas(us, username)
        THEN UserManager_create_failed(us, log, t, a, ": User already exists", AlreadyExistsMsg)
        ELSE IF ~UserManager_is_valid_email(email)
        THEN UserManager_create_failed(us, log, t, a, ": Invalid email", InvalidEmailMsg)
        ELSE IF ~UserManager_is_valid_password(password)
        THEN UserManager_create_failed(us, log, t, a, ": Weak password", WeakPasswordMsg)
        ELSE UserManager_create_store(us, log, t, a)

\* Variant: the password is validated before the e-mail address.
UserManager_create_user_password_first(us, log, t, username, email, password) ==
    LET a == Args(username, email, password, NoKwargs)
    IN  IF ~UserManager_is_valid_password(password)
        THEN UserManager_create_failed(us, log, t, a, ": Weak password", WeakPasswordMsg)
        ELSE IF ~UserManager_is_valid_email(email)
        THEN UserManager_create_failed(us, log, t, a, ": Invalid email", InvalidEmailMsg)
        ELSE IF DictHas(us, username)
        THEN UserManager_create_failed(us, log, t, a, ": User already exists", AlreadyExistsMsg)
        ELSE UserManager_create_store(us, log, t, a)

UserManager_create_user(us, log, t, username, email, password) ==
    LET a == Args(username, email, password, NoKwargs)
    IN  IF ~UserManager_is_valid_email(email)
        THEN UserManager_create_failed(us, log, t, a, ": Invalid email", InvalidEmailMsg)
        ELSE IF ~UserManager_is_valid_password(password)
        THEN UserManager_create_failed(us, log, t, a, ": Weak password", WeakPasswordMsg)
        ELSE IF DictHas(us, username)
        THEN UserManager_create_failed(us, log, t, a, ": User already exists", AlreadyExistsMsg)
        ELSE UserManager_create_store(us, log, t, a)

UserManager_get_user(us, log, t, username) ==
    LET a == Args(username, NoName, NoName, NoKwargs)
    IN  IF ~DictHas(us, username)
        THEN After(us,
                   UserManager_log(log, t, <<"Failed to retrieve user ", username, ": User not found">>),
                   ReturnNone("get_user", a))
        ELSE After(us,
                   UserManager_log(log, t, <<"User ", username, " retrieved successfully">>),
                   ReturnView("get_user", a, DictGet(us, username)))

\* update_user(self, username, **kwargs): a keyword named username cannot be
\* bound a second time, so such a call raises TypeError before the body runs.
UnbindableKwargs(kwargs) == "username" \in DOMAIN kwargs

UserManager_update_failed(us, log, t, a, reason, msg) ==
    After(us,
          UserManager_log(log, t, <<"Failed to update user ", a.username, reason>>),
          Raise("update_user", a, "ValueError", msg))

\* Variant: every update stamps the record with the time of the update.
UserManager_update_apply_stamped(us, log, t, a) ==
    LET kwargs1 == IF "password" \in DOMAIN a.kwargs
                   THEN [a.kwargs EXCEPT !["password"] = UserManager_encrypt_password(@)]
                   ELSE a.kwargs
        updated == kwargs1 @@ ("created_at" :> IsoFormat(t)) @@ DictGet(us, a.username)
    IN  After(DictSet(us, a.username, updated),
              UserManager_log(log, t, <<"User ", a.username, " updated successfully">>),
              ReturnView("update_user", a, updated))

\* Variant: an update of the e-mail address sends a welcome e-mail to it.
UserManager_update_apply_welcome(us, log, t, a) ==
    LET kwargs1 == IF "password" \in DOMAIN a.kwargs
                   THEN [a.kwargs EXCEPT !["password"] = UserManager_encrypt_password(@)]
                   ELSE a.kwargs
        updated == kwargs1 @@ DictGet(us, a.username)
        log1 == UserManager_log(log, t, <<"User ", a.username, " updated successfully">>)
    IN  After(DictSet(us, a.username, updated),
              IF "email" \in DOMAIN a.kwargs
              THEN UserManager_send_welcome_email(log1, t, a.kwargs["email"], a.username)
              ELSE log1,
              ReturnView("update_user", a, updated))

\* The success path of update_user: digest the password, dict.update, log.
UserManager_update_apply(us, log, t, a) ==
    LET kwargs1 == IF "password" \in DOMAIN a.kwargs
                   THEN [a.kwargs EXCEPT !["password"] = UserManager_encrypt_password(@)]
                   ELSE a.kwargs
        \* dict.update: a keyword's value replaces the key's value or adds the key
        updated == kwargs1 @@ DictGet(us, a.username)
    IN  After(DictSet(us, a.username, updated),
              UserManager_log(log, t, <<"User ", a.username, " updated successfully">>),
              ReturnView("update_user", a, updated))

\* Variant: the fields are validated before the existence check.
UserManager_update_user_validate_first(us, log, t, username, kwargs) ==
    LET a == Args(username, NoName, NoName, kwargs)
    IN  IF UnbindableKwargs(kwargs)
        THEN After(us, log, Raise("update_user", a, "TypeError", "multiple values for argument"))
        ELSE IF "email" \in DOMAIN kwargs /\ ~UserManager_is_valid_email(kwargs["email"])
        THEN UserManager_update_failed(us, log, t, a, ": Invalid email", InvalidEmailMsg)
        ELSE IF "password" \in DOMAIN kwargs /\ ~UserManager_is_valid_password(kwargs["password"])
        THEN UserManager_update_failed(us, log, t, a, ": Weak password", WeakPasswordMsg)
        ELSE IF ~DictHas(us, username)
        THEN UserManager_update_failed(us, log, t, a, ": User not found", NotFoundMsg)
        ELSE UserManager_update_apply(us, log, t, a)

\* Variant: a valid e-mail is written as soon as it is validated, before the
\* password is looked at.
UserManager_update_user_email_early(us, log, t, username, kwargs) ==
    LET a == Args(username, NoName, NoName, kwargs)
    IN  IF UnbindableKwargs(kwargs)
        THEN After(us, log, Raise("update_user", a, "TypeError", "multiple values for argument"))
        ELSE IF ~DictHas(us, username)
        THEN UserManager_update_failed(us, log, t, a, ": User not found", NotFoundMsg)
        ELSE IF "email" \in DOMAIN kwargs /\ ~UserManager_is_valid_email(kwargs["email"])
        THEN UserManager_update_failed(us, log, t, a, ": Invalid email", InvalidEmailMsg)
        ELSE IF "password" \in DOMAIN kwargs /\ ~UserManager_is_valid_password(kwargs["password"])
        THEN LET us1 == IF "email" \in DOMAIN kwargs
                        THEN DictSet(us, username,
                                     ("email" :> kwargs["email"]) @@ DictGet(us, username))
                        ELSE us
             IN  UserManager_update_failed(us1, log, t, a, ": Weak password", WeakPasswordMsg)
        ELSE UserManager_update_apply(us, log, t, a)

UserManager_update_user(us, log, t, username, kwargs) ==
    LET a == Args(username, NoName, NoName, kwargs)
    IN  IF UnbindableKwargs(kwargs)
        THEN After(us, log, Raise("update_user", a, "TypeError", "multiple values for argument"))
        ELSE IF ~DictHas(us, username)
        THEN UserManager_update_failed(us, log, t, a, ": User not found", NotFoundMsg)
        ELSE IF "email" \in DOMAIN kwargs /\ ~UserManager_is_valid_email(kwargs["email"])
        THEN UserManager_update_failed(us, log, t, a, ": Invalid email", InvalidEmailMsg)
        ELSE IF "password" \in DOMAIN kwargs /\ ~UserManager_is_valid_password(kwargs["password"])
        THEN UserManager_update_failed(us, log, t, a, ": Weak password", WeakPasswordMsg)
        ELSE UserManager_update_apply(us, log, t, a)

\* Variant: the record is kept and marked inactive instead of being removed.
UserManager_delete_user_soft(us, log, t, username) ==
    LET a == Args(username, NoName, NoName, NoKwargs)
    IN  IF ~DictHas(us, username)
        THEN After(us,
                   UserManager_log(log, t, <<"Failed to delete user ", username, ": User not found">>),
                   Raise("delete_user", a, "ValueError", NotFoundMsg))
        ELSE LET email == DictGet(us, username)["email"]
                 log1 == UserManager_log(log, t, <<"User ", username, " deleted successfully">>)
             IN  After(DictSet(us, username, ("is_active" :> FALSE) @@ DictGet(us, username)),
                       UserManager_send_goodbye_email(log1, t, email, username),
                       ReturnBool("delete_user", a, TRUE))

\* Variant: the goodbye e-mail is sent before the deletion is logged.
UserManager_delete_user_notify_first(us, log, t, username) ==
    LET a == Args(username, NoName, NoName, NoKwargs)
    IN  IF ~DictHas(us, username)
        THEN After(us,
                   UserManager_log(log, t, <<"Failed to delete user ", username, ": User not found">>),
                   Raise("delete_user", a, "ValueError", NotFoundMsg))
        ELSE LET email == DictGet(us, username)["email"]
                 log1 == UserManager_send_goodbye_email(log, t, email, username)
             IN  After(DictDel(us, username),
                       UserManager_log(log1, t, <<"User ", username, " deleted successfully">>),
                       ReturnBool("delete_user", a, TRUE))

UserManager_delete_user(us, log, t, username) ==
    LET a == Args(username, NoName, NoName, NoKwargs)
    IN  IF ~DictHas(us, username)
        THEN After(us,
                   UserManager_log(log, t, <<"Failed to delete user ", username, ": User not found">>),
                   Raise("delete_user", a, "ValueError", NotFoundMsg))
        ELSE LET email == DictGet(us, username)["email"]
                 log1 == UserManager_log(log, t, <<"User ", username, " deleted successfully">>)
             IN  After(DictDel(us, username),
                       UserManager_send_goodbye_email(log1, t, email, username),
                       ReturnBool("delete_user", a, TRUE))

UserManager_list_users(us, log, t) ==
    After(us,
          UserManager_log(log, t, <<"User list retrieved">>),
          ReturnList("list_users", Args(NoName, NoName, NoName, NoKwargs), DictValues(us)))

(***************************************************************************)
(* Refactored services (refactored_example.py)                             *)
(***************************************************************************)
\* ^[a-zA-Z0-9._%+-]+@[a-zA-Z0-9.-]+\.[a-zA-Z]{2,}$
LooseEmailPattern(s) ==
    \E at \in 1..Len(s), dot \in 1..Len(s), end \in DollarAt(s) :
        /\ at < dot
        /\ s[at] = "@"
        /\ s[dot] = "."
        /\ LET local == SubSeq(s, 1, at - 1)
               dom == SubSeq(s, at + 1, dot - 1)
               ext == SubSeq(s, dot + 1, end)
           IN  /\ Len(local) >= 1
               /\ AllIn(local, LocalChars)
               /\ Len(dom) >= 1
               /\ AllIn(dom, DomainChars)
               /\ Len(ext) >= 2
               /\ AllIn(ext, Alpha)

EmailValidator_is_valid(email) == LooseEmailPattern(email)

\* EmailValidator.is_valid of solution/refactored_example.py: the pattern of
\* UserManager, after the check for '..'.
Solution_EmailValidator_is_valid(email) ==
    IF HasConsecutiveDots(email) THEN FALSE ELSE StrictEmailPattern(email)

PasswordValidator_is_valid(password) ==
    /\ ~(Len(password) < 8)
    /\ \E k \in 1..Len(password) : password[k] \in Upper
    /\ \E k \in 1..Len(password) : password[k] \in Lower
    /\ \E k \in 1..Len(password) : password[k] \in Digit

PasswordEncryption_encrypt(password) == Sha256Hex(password)

Logger_log(log, t, message) ==
    Append(log, [timestamp |-> IsoFormat(t), message |-> message])

EmailService_send_welcome_email(log, t, email, username) ==
    Logger_log(log, t, <<"Welcome email sent to ", email, ": Welcome ", username,
                         "! Your account has been created successfully.">>)

EmailService_send_goodbye_email(log, t, email, username) ==
    Logger_log(log, t, <<"Goodbye email sent to ", email, ": Goodbye ", username,
                         "! Your account has been deleted.">>)

\* A User object is its instance attributes, and which object it is: the
\* repository holds references, so one object can sit under two keys.  Objects
\* are told apart by the clock reading at which they were constructed.
ObjectId == "id(self)"

User_init(username, email, encrypted_password, t) ==
    ("username" :> username @@ "email" :> email
     @@ "encrypted_password" :> encrypted_password
     @@ "created_at" :> IsoFormat(t) @@ "is_active" :> TRUE
     @@ ObjectId :> t)

\* Attributes the class gives every User: hasattr finds them too.
UserClassAttrs == {"to_dict", "update"}

\* An instance attribute of a method's name hides the method: calling it fails.
User_callable(user, method) == method \notin DOMAIN user

User_to_dict(user) ==
    ("username" :> user["username"] @@ "email" :> user["email"]
     @@ "password" :> user["encrypted_password"]
     @@ "created_at" :> user["created_at"] @@ "is_active" :> user["is_active"])

\* for key, value in kwargs.items(): if hasattr(self, key): setattr(self, key, value)
\* Every object has the attribute __dict__, and setting it replaces the
\* object's instance attributes by the given ones (it is passed as the only
\* keyword here).
User_update(user, kwargs) ==
    IF "__dict__" \in DOMAIN kwargs
    THEN kwargs["__dict__"] @@ (ObjectId :> user[ObjectId])
    ELSE LET has == {k \in DOMAIN kwargs : k \in DOMAIN user \cup UserClassAttrs}
         IN  [k \in DOMAIN user \cup has |-> IF k \in has THEN kwargs[k] ELSE user[k]]

\* The repository after an object it holds was updated in place: every key
\* that refers to the object shows the new attributes.
UserRepository_mutated(us, user, user1) ==
    [i \in 1..Len(us) |->
        IF us[i].value[ObjectId] = user[ObjectId]
        THEN [key |-> us[i].key, value |-> user1]
        ELSE us[i]]

UserRepository_save(us, user) == DictSet(us, user["username"], user)
\* dict.get: the user, or None (the empty sequence here)
UserRepository_find_by_username(us, username) ==
    IF DictHas(us, username) THEN <<DictGet(us, username)>> ELSE <<>>
UserRepository_delete(us, username) ==
    IF DictHas(us, username) THEN DictDel(us, username) ELSE us
UserRepository_find_all(us) == DictValues(us)
UserRepository_exists(us, username) == DictHas(us, username)

NotCallableMsg == "'str' object is not callable"

UserService_create_failed(us, log, t, a, reason, msg) ==
    After(us,
          Logger_log(log, t, <<"Failed to create user ", a.username, reason>>),
          Raise("create_user", a, "ValueError", msg))

UserService_create_store(us, log, t, a) ==
    LET encrypted_password == PasswordEncryption_encrypt(a.password)
        user == User_init(a.username, a.email, encrypted_password, t)
        log1 == Logger_log(log, t, <<"User ", a.username, " created successfully">>)
    IN  After(UserRepository_save(us, user),
              EmailService_send_welcome_email(log1, t, a.email, a.username),
              ReturnView("create_user", a, User_to_dict(user)))

UserService_create_user(us, log, t, username, email, password) ==
    LET a == Args(username, email, password, NoKwargs)
    IN  IF ~EmailValidator_is_valid(email)
        THEN UserService_create_failed(us, log, t, a, ": Invalid email", InvalidEmailMsg)
        ELSE IF ~PasswordValidator_is_valid(password)
        THEN UserService_create_failed(us, log, t, a, ": Weak password", WeakPasswordMsg)
        ELSE IF UserRepository_exists(us, username)
        THEN UserService_create_failed(us, log, t, a, ": User already exists", AlreadyExistsMsg)
        ELSE UserService_create_store(us, log, t, a)

\* UserService is handed its e-mail service (lines 199, 207).  The factory
\* hands it an EmailService, whose sends log and return; a caller may hand it
\* one whose send raises.
SendFailedMsg == "send failed"
SendOutcomes(service) == IF service = "EmailService" THEN {TRUE} ELSE BOOLEAN

\* Lines 228-237 when send_welcome_email raises: the user is saved and the
\* success is logged, then the exception leaves create_user.
UserService_create_store_unsent(us, log, t, a) ==
    LET encrypted_password == PasswordEncryption_encrypt(a.password)
        user == User_init(a.username, a.email, encrypted_password, t)
        log1 == Logger_log(log, t, <<"User ", a.username, " created successfully">>)
    IN  After(UserRepository_save(us, user), log1,
              Raise("create_user", a, "Exception", SendFailedMsg))

\* create_user with the outcome of the send: sent, or raised.
UserService_create_user_with(us, log, t, username, email, password, sent) ==
    LET a == Args(username, email, password, NoKwargs)
    IN  IF ~EmailValidator_is_valid(email)
        THEN UserService_create_failed(us, log, t, a, ": Invalid email", InvalidEmailMsg)
        ELSE IF ~PasswordValidator_is_valid(password)
        THEN UserService_create_failed(us, log, t, a, ": Weak password", WeakPasswordMsg)
        ELSE IF UserRepository_exists(us, username)
        THEN UserService_create_failed(us, log, t, a, ": User already exists", AlreadyExistsMsg)
        ELSE IF sent
        THEN UserService_create_store(us, log, t, a)
        ELSE UserService_create_store_unsent(us, log, t, a)

UserService_get_user(us, log, t, username) ==
    LET a == Args(username, NoName, NoName, NoKwargs)
        found == UserRepository_find_by_username(us, username)
    IN  IF found = <<>>
        THEN After(us,
                   Logger_log(log, t, <<"Failed to retrieve user ", username, ": User not found">>),
                   ReturnNone("get_user", a))
        ELSE LET log1 == Logger_log(log, t, <<"User ", username, " retrieved successfully">>)
             IN  IF User_callable(found[1], "to_dict")
                 THEN After(us, log1, ReturnView("get_user", a, User_to_dict(found[1])))
                 ELSE After(us, log1, Raise("get_user", a, "TypeError", NotCallableMsg))

UserService_update_failed(us, log, t, a, reason, msg) ==
    After(us,
          Logger_log(log, t, <<"Failed to update user ", a.username, reason>>),
          Raise("update_user", a, "ValueError", msg))

\* The success path of update_user: the password keyword becomes an
\* encrypted_password keyword, then User.update, save, log, to_dict.
UserService_update_apply(us, log, t, a, user) ==
    LET kwargs1 == IF "password" \in DOMAIN a.kwargs
                   THEN ("encrypted_password" :> PasswordEncryption_encrypt(a.kwargs["password"]))
                        @@ [k \in DOMAIN a.kwargs \ {"password"} |-> a.kwargs[k]]
                   ELSE a.kwargs
    IN  IF ~User_callable(user, "update")
        THEN After(us, log, Raise("update_user", a, "TypeError", NotCallableMsg))
        ELSE LET user1 == User_update(user, kwargs1)
                 us1 == UserRepository_save(UserRepository_mutated(us, user, user1), user1)
                 log1 == Logger_log(log, t, <<"User ", a.username, " updated successfully">>)
             IN  IF User_callable(user1, "to_dict")
                 THEN After(us1, log1, ReturnView("update_user", a, User_to_dict(user1)))
                 ELSE After(us1, log1, Raise("update_user", a, "TypeError", NotCallableMsg))

UserService_update_user(us, log, t, username, kwargs) ==
    LET a == Args(username, NoName, NoName, kwargs)
        found == UserRepository_find_by_username(us, username)
    IN  IF UnbindableKwargs(kwargs)
        THEN After(us, log, Raise("update_user", a, "TypeError", "multiple values for argument"))
        ELSE IF found = <<>>
        THEN UserService_update_failed(us, log, t, a, ": User not found", NotFoundMsg)
        ELSE IF "email" \in DOMAIN kwargs /\ ~EmailValidator_is_valid(kwargs["email"])
        THEN UserService_update_failed(us, log, t, a, ": Invalid email", InvalidEmailMsg)
        ELSE IF "password" \in DOMAIN kwargs /\ ~PasswordValidator_is_valid(kwargs["password"])
        THEN UserService_update_failed(us, log, t, a, ": Weak password", WeakPasswordMsg)
        ELSE UserService_update_apply(us, log, t, a, found[1])

UserService_delete_user(us, log, t, username) ==
    LET a == Args(username, NoName, NoName, NoKwargs)
        found == UserRepository_find_by_username(us, username)
    IN  IF found = <<>>
        THEN After(us,
                   Logger_log(log, t, <<"Failed to delete user ", username, ": User not found">>),
                   Raise("delete_user", a, "ValueError", NotFoundMsg))
        ELSE LET email == found[1]["email"]
                 log1 == Logger_log(log, t, <<"User ", username, " deleted successfully">>)
             IN  After(UserRepository_delete(us, username),
                       EmailService_send_goodbye_email(log1, t, email, username),
                       ReturnBool("delete_user", a, TRUE))

\* delete_user with the outcome of the send: sent, or raised (line 293).
UserService_delete_user_with(us, log, t, username, sent) ==
    LET a == Args(username, NoName, NoName, NoKwargs)
        found == UserRepository_find_by_username(us, username)
    IN  IF found = <<>>
        THEN After(us,
                   Logger_log(log, t, <<"Failed to delete user ", username, ": User not found">>),
                   Raise("delete_user", a, "ValueError", NotFoundMsg))
        ELSE LET email == found[1]["email"]
                 log1 == Logger_log(log, t, <<"User ", username, " deleted successfully">>)
             IN  IF sent
                 THEN After(UserRepository_delete(us, username),
                            EmailService_send_goodbye_email(log1, t, email, username),
                            ReturnBool("delete_user", a, TRUE))
                 ELSE After(UserRepository_delete(us, username), log1,
                            Raise("delete_user", a, "Exception", SendFailedMsg))

UserService_list_users(us, log, t) ==
    LET a == Args(NoName, NoName, NoName, NoKwargs)
        log1 == Logger_log(log, t, <<"User list retrieved">>)
        all == UserRepository_find_all(us)
    IN  IF \A i \in 1..Len(all) : User_callable(all[i], "to_dict")
        THEN After(us, log1, ReturnList("list_users", a, [i \in 1..Len(all) |-> User_to_dict(all[i])]))
        ELSE After(us, log1, Raise("list_users", a, "TypeError", NotCallableMsg))

\* return self.log_entries, through UserService.get_logs.
Logger_get_logs(log) == RefLogEntries

UserService_get_logs(us, log) ==
    [users |-> us, log |-> log, ref |-> Logger_get_logs(log),
     ret |-> ReturnRef("get_logs", Args(NoName, NoName, NoName, NoKwargs))]

DataExporter_export_to_json(log, t, file, data, filename, ok) ==
    [disk |-> JsonDump(file, data, ok),
     log |-> IF ok
             THEN Logger_log(log, t, <<"Data exported to ", filename>>)
             ELSE Logger_log(log, t, <<"Failed to export data: ", OSErrorText>>),
     flag |-> ok]

\* users_dict is built before the exporter's try block is entered.
UserService_export_users_to_json(us, log, t, file, filename, ok) ==
    LET a == Args(NoName, NoName, NoName, NoKwargs)
        all == UserRepository_find_all(us)
    IN  IF \A i \in 1..Len(all) : User_callable(all[i], "to_dict")
        THEN LET users_dict == [i \in 1..Len(all) |->
                                  [key |-> all[i]["username"], value |-> User_to_dict(all[i])]]
                 e == DataExporter_export_to_json(log, t, file, users_dict, filename, ok)
             IN  [users |-> us, disk |-> e.disk, log |-> e.log,
                  ret |-> ReturnBool("export_users_to_json", a, e.flag)]
        ELSE [users |-> us, disk |-> file, log |-> log,
              ret |-> Raise("export_users_to_json", a, "TypeError", NotCallableMsg)]

(***************************************************************************)
(* Keyword arguments of update_user                                        *)
(***************************************************************************)
\* The instance attributes of a User named Bob, as a caller can write them.
RebindAttrs ==
    ("username" :> Bob @@ "email" :> EmailAB @@ "encrypted_password" :> Weak
     @@ "created_at" :> OtherTime @@ "is_active" :> TRUE)

UpdateKwargs ==
    { [k \in {} |-> <<>>],
      ("email" :> EmailAB),
      ("email" :> EmailBad),
      ("password" :> Secret12),
      ("password" :> Weak),
      ("is_active" :> FALSE),
      ("created_at" :> OtherTime),
      ("nickname" :> Nick),
      ("username" :> Bob),
      ("encrypted_password" :> Weak),
      ("to_dict" :> Nick),
      ("__dict__" :> RebindAttrs),
      ("email" :> EmailAB @@ "password" :> Weak),
      ("email" :> EmailBad @@ "password" :> Secret12) }

(***************************************************************************)
(* The instance and its calls                                              *)
(***************************************************************************)
Impls == {"UserManager", "UserService"}

\* `threads` holds, for each thread that is inside create_user when two calls
\* run at once, where the call stands, its arguments, the record it has built
\* and its outcome.  There is none when calls are made one after the other.
NoThreads == <<>>

\* `peer` is a second instance, a UserService, that is handed the same calls
\* as the first when the two classes are run side by side: its repository, its
\* log and the outcome of its last call.  Otherwise it is never called.
NoPeer ==
    [users |-> <<>>, log |-> <<>>,
     ret |-> ReturnNone("init", Args(NoName, NoName, NoName, NoKwargs))]

Init ==
    /\ impl \in Impls
    /\ email_service = "EmailService"
    /\ users = <<>>
    /\ log_entries = <<>>
    /\ now = 0
    /\ ret = ReturnNone("init", Args(NoName, NoName, NoName, NoKwargs))
    /\ logs = NoRef
    /\ disk = NoFile
    /\ input = NoInput
    /\ peer = NoPeer
    /\ threads = NoThreads

Apply(r) ==
    /\ users' = r.users
    /\ log_entries' = r.log
    /\ ret' = r.ret
    /\ now' = now + 1
    /\ UNCHANGED <<impl, email_service, logs, disk, input, peer, threads>>

UM_CreateUser ==
    /\ impl = "UserManager"
    /\ now < MaxOps
    /\ \E username \in Usernames, email \in Emails, password \in Passwords :
           Apply(UserManager_create_user(users, log_entries, now, username, email, password))

UM_GetUser ==
    /\ impl = "UserManager"
    /\ now < MaxOps
    /\ \E username \in Usernames :
           Apply(UserManager_get_user(users, log_entries, now, username))

UM_UpdateUser ==
    /\ impl = "UserManager"
    /\ now < MaxOps
    /\ \E username \in Usernames, kwargs \in UpdateKwargs :
           Apply(UserManager_update_user(users, log_entries, now, username, kwargs))

UM_DeleteUser ==
    /\ impl = "UserManager"
    /\ now < MaxOps
    /\ \E username \in Usernames :
           Apply(UserManager_delete_user(users, log_entries, now, username))

UM_ListUsers ==
    /\ impl = "UserManager"
    /\ now < MaxOps
    /\ Apply(UserManager_list_users(users, log_entries, now))

UM_GetLogs ==
    /\ impl = "UserManager"
    /\ now < MaxOps
    /\ LET r == UserManager_get_logs(users, log_entries)
       IN  /\ users' = r.users
           /\ log_entries' = r.log
           /\ ret' = r.ret
           /\ logs' = r.ref
    /\ now' = now + 1
    /\ UNCHANGED <<impl, email_service, disk, input, peer, threads>>

\* The file system decides whether the write succeeds.
UM_ExportUsers ==
    /\ impl = "UserManager"
    /\ now < MaxOps
    /\ \E ok \in BOOLEAN :
           LET r == UserManager_export_users_to_json(users, log_entries, now, disk, Filename, ok)
           IN  /\ users' = r.users
               /\ log_entries' = r.log
               /\ ret' = r.ret
               /\ disk' = r.disk
    /\ now' = now + 1
    /\ UNCHANGED <<impl, email_service, logs, input, peer, threads>>

US_CreateUser ==
    /\ impl = "UserService"
    /\ now < MaxOps
    /\ \E username \in Usernames, email \in Emails, password \in Passwords,
          sent \in SendOutcomes(email_service) :
           Apply(UserService_create_user_with(users, log_entries, now,
                                              username, email, password, sent))

US_GetUser ==
    /\ impl = "UserService"
    /\ now < MaxOps
    /\ \E username \in Usernames :
           Apply(UserService_get_user(users, log_entries, now, username))

US_UpdateUser ==
    /\ impl = "UserService"
    /\ now < MaxOps
    /\ \E username \in Usernames, kwargs \in UpdateKwargs :
           Apply(UserService_update_user(users, log_entries, now, username, kwargs))

US_DeleteUser ==
    /\ impl = "UserService"
    /\ now < MaxOps
    /\ \E username \in Usernames, sent \in SendOutcomes(email_service) :
           Apply(UserService_delete_user_with(users, log_entries, now, username, sent))

US_ListUsers ==
    /\ impl = "UserService"
    /\ now < MaxOps
    /\ Apply(UserService_list_users(users, log_entries, now))

US_GetLogs ==
    /\ impl = "UserService"
    /\ now < MaxOps
    /\ LET r == UserService_get_logs(users, log_entries)
       IN  /\ users' = r.users
           /\ log_entries' = r.log
           /\ ret' = r.ret
           /\ logs' = r.ref
    /\ now' = now + 1
    /\ UNCHANGED <<impl, email_service, disk, input, peer, threads>>

US_ExportUsers ==
    /\ impl = "UserService"
    /\ now < MaxOps
    /\ \E ok \in BOOLEAN :
           LET r == UserService_export_users_to_json(users, log_entries, now, disk, Filename, ok)
           IN  /\ users' = r.users
               /\ log_entries' = r.log
               /\ ret' = r.ret
               /\ disk' = r.disk
    /\ now' = now + 1
    /\ UNCHANGED <<impl, email_service, logs, input, peer, threads>>

Next ==
    \/ UM_CreateUser
    \/ UM_GetUser
    \/ UM_UpdateUser
    \/ UM_DeleteUser
    \/ UM_ListUsers
    \/ UM_GetLogs
    \/ UM_ExportUsers
    \/ US_CreateUser
    \/ US_GetUser
    \/ US_UpdateUser
    \/ US_DeleteUser
    \/ US_ListUsers
    \/ US_GetLogs
    \/ US_ExportUsers

Spec == Init /\ [][Next]_vars

\* A UserService built with an e-mail service whose sends may raise.
InitInjected ==
    /\ impl = "UserService"
    /\ email_service = "RaisingEmailService"
    /\ users = <<>>
    /\ log_entries = <<>>
    /\ now = 0
    /\ ret = ReturnNone("init", Args(NoName, NoName, NoName, NoKwargs))
    /\ logs = NoRef
    /\ disk = NoFile
    /\ input = NoInput
    /\ peer = NoPeer
    /\ threads = NoThreads

NextInjected ==
    \/ US_CreateUser
    \/ US_GetUser
    \/ US_UpdateUser
    \/ US_DeleteUser
    \/ US_ListUsers
    \/ US_GetLogs
    \/ US_ExportUsers

SpecInjected == InitInjected /\ [][NextInjected]_vars

(***************************************************************************)
(* The password validators on their own, and create / update with the      *)
(* password under test                                                     *)
(***************************************************************************)
InitPassword ==
    /\ impl \in Impls
    /\ email_service = "EmailService"
    /\ users = <<>>
    /\ log_entries = <<>>
    /\ now = 0
    /\ ret = ReturnNone("init", Args(NoName, NoName, NoName, NoKwargs))
    /\ logs = NoRef
    /\ disk = NoFile
    /\ input \in PasswordInputs
    /\ peer = NoPeer
    /\ threads = NoThreads

\* self._is_valid_password(password): reads no state and changes none.
UM_IsValidPassword ==
    /\ impl = "UserManager"
    /\ ret' = ReturnBool("is_valid_password", Args(NoName, NoName, input, NoKwargs),
                         UserManager_is_valid_password(input))
    /\ UNCHANGED <<impl, email_service, users, log_entries, now, logs, disk, input, peer, threads>>

\* self.password_validator.is_valid(password)
PV_IsValid ==
    /\ impl = "UserService"
    /\ ret' = ReturnBool("is_valid_password", Args(NoName, NoName, input, NoKwargs),
                         PasswordValidator_is_valid(input))
    /\ UNCHANGED <<impl, email_service, users, log_entries, now, logs, disk, input, peer, threads>>

\* The keyword arguments of an update that carries the password under test.
PasswordKwargs(password) ==
    { ("password" :> password),
      ("email" :> EmailAB @@ "password" :> password),
      ("email" :> EmailBad @@ "password" :> password) }

UM_CreateUserPw ==
    /\ impl = "UserManager"
    /\ now < MaxOps
    /\ input \in TestPasswords
    /\ \E username \in Usernames, email \in {EmailAnn, EmailBad}, password \in {input, Secret12} :
           Apply(UserManager_create_user(users, log_entries, now, username, email, password))

UM_UpdateUserPw ==
    /\ impl = "UserManager"
    /\ now < MaxOps
    /\ input \in TestPasswords
    /\ \E username \in Usernames, kwargs \in PasswordKwargs(input) :
           Apply(UserManager_update_user(users, log_entries, now, username, kwargs))

US_CreateUserPw ==
    /\ impl = "UserService"
    /\ now < MaxOps
    /\ input \in TestPasswords
    /\ \E username \in Usernames, email \in {EmailAnn, EmailBad}, password \in {input, Secret12} :
           Apply(UserService_create_user(users, log_entries, now, username, email, password))

US_UpdateUserPw ==
    /\ impl = "UserService"
    /\ now < MaxOps
    /\ input \in TestPasswords
    /\ \E username \in Usernames, kwargs \in PasswordKwargs(input) :
           Apply(UserService_update_user(users, log_entries, now, username, kwargs))

NextPassword ==
    \/ UM_IsValidPassword
    \/ PV_IsValid
    \/ UM_CreateUserPw
    \/ UM_UpdateUserPw
    \/ US_CreateUserPw
    \/ US_UpdateUserPw

SpecPassword == InitPassword /\ [][NextPassword]_vars

(***************************************************************************)
(* The e-mail validators on their own                                      *)
(***************************************************************************)
InitEmail ==
    /\ impl \in Impls
    /\ email_service = "EmailService"
    /\ users = <<>>
    /\ log_entries = <<>>
    /\ now = 0
    /\ ret = ReturnNone("init", Args(NoName, NoName, NoName, NoKwargs))
    /\ logs = NoRef
    /\ disk = NoFile
    /\ input \in EmailInputs
    /\ peer = NoPeer
    /\ threads = NoThreads

\* self._is_valid_email(email): reads no state and changes none.
UM_IsValidEmail ==
    /\ impl = "UserManager"
    /\ ret' = ReturnBool("is_valid_email", Args(NoName, input, NoName, NoKwargs),
                         UserManager_is_valid_email(input))
    /\ UNCHANGED <<impl, email_service, users, log_entries, now, logs, disk, input, peer, threads>>

\* self.email_validator.is_valid(email)
EV_IsValid ==
    /\ impl = "UserService"
    /\ ret' = ReturnBool("is_valid_email", Args(NoName, input, NoName, NoKwargs),
                         EmailValidator_is_valid(input))
    /\ UNCHANGED <<impl, email_service, users, log_entries, now, logs, disk, input, peer, threads>>

\* EmailValidator.is_valid(email) of solution/refactored_example.py, a static
\* method.
Solution_EV_IsValid ==
    /\ ret' = ReturnBool("solution.is_valid_email", Args(NoName, input, NoName, NoKwargs),
                         Solution_EmailValidator_is_valid(input))
    /\ UNCHANGED <<impl, email_service, users, log_entries, now, logs, disk, input, peer, threads>>

\* create_user with the address under test
UM_CreateUserEm ==
    /\ impl = "UserManager"
    /\ now < MaxOps
    /\ Apply(UserManager_create_user(users, log_entries, now, Ann, input, Secret12))

NextEmail ==
    \/ UM_IsValidEmail
    \/ UM_CreateUserEm
    \/ EV_IsValid
    \/ Solution_EV_IsValid

SpecEmail == InitEmail /\ [][NextEmail]_vars

(***************************************************************************)
(* A UserManager and a UserService side by side, handed the same calls     *)
(***************************************************************************)
InitPair ==
    /\ impl = "UserManager"
    /\ email_service = "EmailService"
    /\ users = <<>>
    /\ log_entries = <<>>
    /\ now = 0
    /\ ret = ReturnNone("init", Args(NoName, NoName, NoName, NoKwargs))
    /\ logs = NoRef
    /\ disk = NoFile
    /\ input = NoInput
    /\ peer = NoPeer
    /\ threads = NoThreads

\* r: the call on the UserManager; p: the same call on the UserService.
ApplyPair(r, p) ==
    /\ users' = r.users
    /\ log_entries' = r.log
    /\ ret' = r.ret
    /\ peer' = [users |-> p.users, log |-> p.log, ret |-> p.ret]
    /\ now' = now + 1
    /\ UNCHANGED <<impl, email_service, logs, disk, input, threads>>

Pair_CreateUser ==
    /\ now < MaxOps
    /\ \E username \in Usernames, email \in Emails \cup {EmailOneChar}, password \in Passwords :
           ApplyPair(UserManager_create_user(users, log_entries, now, username, email, password),
                     UserService_create_user(peer.users, peer.log, now, username, email, password))

Pair_GetUser ==
    /\ now < MaxOps
    /\ \E username \in Usernames :
           ApplyPair(UserManager_get_user(users, log_entries, now, username),
                     UserService_get_user(peer.users, peer.log, now, username))

Pair_UpdateUser ==
    /\ now < MaxOps
    /\ \E username \in Usernames, kwargs \in UpdateKwargs :
           ApplyPair(UserManager_update_user(users, log_entries, now, username, kwargs),
                     UserService_update_user(peer.users, peer.log, now, username, kwargs))

Pair_DeleteUser ==
    /\ now < MaxOps
    /\ \E username \in Usernames :
           ApplyPair(UserManager_delete_user(users, log_entries, now, username),
                     UserService_delete_user(peer.users, peer.log, now, username))

Pair_ListUsers ==
    /\ now < MaxOps
    /\ ApplyPair(UserManager_list_users(users, log_entries, now),
                 UserService_list_users(peer.users, peer.log, now))

NextPair ==
    \/ Pair_CreateUser
    \/ Pair_GetUser
    \/ Pair_UpdateUser
    \/ Pair_DeleteUser
    \/ Pair_ListUsers

SpecPair == InitPair /\ [][NextPair]_vars

(***************************************************************************)
(* Two threads inside create_user on one instance at once                  *)
(***************************************************************************)
Threads == {1, 2}

\* A call about to start.
Call(username, email, password) ==
    [pc |-> "validate", args |-> Args(username, email, password, NoKwargs),
     record |-> NoView, ret |-> ReturnNone("create_user", Args(username, email, password, NoKwargs))]

InitRace ==
    /\ impl \in Impls
    /\ email_service = "EmailService"
    /\ users = <<>>
    /\ log_entries = <<>>
    /\ now = 0
    /\ ret = ReturnNone("init", Args(NoName, NoName, NoName, NoKwargs))
    /\ logs = NoRef
    /\ disk = NoFile
    /\ input = NoInput
    /\ peer = NoPeer
    /\ threads \in [Threads -> {Call(username, email, password) :
                                    username \in Usernames,
                                    email \in {EmailAnn, EmailAB, EmailBad},
                                    password \in Passwords}]

\* A step of thread th: the clock moves on, nothing else but what the step
\* names changes.
RaceStep(th, call, us, log) ==
    /\ threads' = [threads EXCEPT ![th] = call]
    /\ users' = us
    /\ log_entries' = log
    /\ now' = now + 1
    /\ UNCHANGED <<impl, email_service, ret, logs, disk, input, peer>>

\* A failure path: the log entry, then the ValueError.
RaceFail(th, reason, msg) ==
    LET c == threads[th]
        r == IF impl = "UserManager"
             THEN UserManager_create_failed(users, log_entries, now, c.args, reason, msg)
             ELSE UserService_create_failed(users, log_entries, now, c.args, reason, msg)
    IN  RaceStep(th, [c EXCEPT !.pc = "done", !.ret = r.ret], r.users, r.log)

\* The two validations (user_manager.py 38-45, refactored_example.py 214-221).
Race_Validate(th) ==
    /\ threads[th].pc = "validate"
    /\ LET c == threads[th]
           email_ok == IF impl = "UserManager"
                       THEN UserManager_is_valid_email(c.args.email)
                       ELSE EmailValidator_is_valid(c.args.email)
           password_ok == IF impl = "UserManager"
                          THEN UserManager_is_valid_password(c.args.password)
                          ELSE PasswordValidator_is_valid(c.args.password)
       IN  IF ~email_ok
           THEN RaceFail(th, ": Invalid email", InvalidEmailMsg)
           ELSE IF ~password_ok
           THEN RaceFail(th, ": Weak password", WeakPasswordMsg)
           ELSE RaceStep(th, [c EXCEPT !.pc = "check"], users, log_entries)

\* The existence check, and on passing it the digest and the new record
\* (user_manager.py 48-62, refactored_example.py 224-230).
Race_CheckExists(th) ==
    /\ threads[th].pc = "check"
    /\ LET c == threads[th]
           digest == IF impl = "UserManager"
                     THEN UserManager_encrypt_password(c.args.password)
                     ELSE PasswordEncryption_encrypt(c.args.password)
           record == IF impl = "UserManager"
                     THEN UserManager_user_data(c.args.username, c.args.email, digest, now)
                     ELSE User_init(c.args.username, c.args.email, digest, now)
       IN  IF DictHas(users, c.args.username)
           THEN RaceFail(th, ": User already exists", AlreadyExistsMsg)
           ELSE RaceStep(th, [c EXCEPT !.pc = "store", !.record = record], users, log_entries)

\* self.users[username] = user_data / self.user_repository.save(user)
Race_Store(th) ==
    /\ threads[th].pc = "store"
    /\ LET c == threads[th]
       IN  RaceStep(th, [c EXCEPT !.pc = "log"],
                    DictSet(users, c.args.username, c.record), log_entries)

\* The success entry (user_manager.py 65, refactored_example.py 234).
Race_LogSuccess(th) ==
    /\ threads[th].pc = "log"
    /\ LET c == threads[th]
       IN  RaceStep(th, [c EXCEPT !.pc = "send"], users,
                    UserManager_log(log_entries, now,
                                    <<"User ", c.args.username, " created successfully">>))

\* The welcome e-mail and the return of the view (user_manager.py 68-70,
\* refactored_example.py 237-239).
Race_SendAndReturn(th) ==
    /\ threads[th].pc = "send"
    /\ LET c == threads[th]
           view == IF impl = "UserManager" THEN c.record ELSE User_to_dict(c.record)
       IN  RaceStep(th, [c EXCEPT !.pc = "done", !.ret = ReturnView("create_user", c.args, view)],
                    users,
                    UserManager_send_welcome_email(log_entries, now, c.args.email, c.args.username))

NextRace ==
    \/ \E th \in Threads : Race_Validate(th)
    \/ \E th \in Threads : Race_CheckExists(th)
    \/ \E th \in Threads : Race_Store(th)
    \/ \E th \in Threads : Race_LogSuccess(th)
    \/ \E th \in Threads : Race_SendAndReturn(th)

SpecRace == InitRace /\ [][NextRace]_vars

(***************************************************************************)
(* The instance's methods, whichever class it is                           *)
(***************************************************************************)
Svc_is_valid_email(email) ==
    IF impl = "UserManager"
    THEN UserManager_is_valid_email(email)
    ELSE EmailValidator_is_valid(email)

Svc_is_valid_password(password) ==
    IF impl = "UserManager"
    THEN UserManager_is_valid_password(password)
    ELSE PasswordValidator_is_valid(password)

Svc_create_user(us, log, t, username, email, password) ==
    IF impl = "UserManager"
    THEN UserManager_create_user(us, log, t, username, email, password)
    ELSE UserService_create_user(us, log, t, username, email, password)

Svc_get_user(us, log, t, username) ==
    IF impl = "UserManager"
    THEN UserManager_get_user(us, log, t, username)
    ELSE UserService_get_user(us, log, t, username)

Svc_update_user(us, log, t, username, kwargs) ==
    IF impl = "UserManager"
    THEN UserManager_update_user(us, log, t, username, kwargs)
    ELSE UserService_update_user(us, log, t, username, kwargs)

Svc_delete_user(us, log, t, username) ==
    IF impl = "UserManager"
    THEN UserManager_delete_user(us, log, t, username)
    ELSE UserService_delete_user(us, log, t, username)

\* The credential a stored record holds.
StoredCredential(record) ==
    IF impl = "UserManager" THEN record["password"] ELSE record["encrypted_password"]

\* The view get_user builds from a stored record.
ViewOf(record) == IF impl = "UserManager" THEN record ELSE User_to_dict(record)

CrudOps == {"create_user", "get_user", "update_user", "delete_user", "list_users"}

\* A call whose arguments Python could bind, so that the method body ran.
BodyRan(r) == ~(r.op = "update_user" /\ UnbindableKwargs(r.args.kwargs))

\* The fields the specification lets update change.
RecognizedFields == {"email", "is_active", "password"}

(***************************************************************************)
(* C1                                                                      *)
(***************************************************************************)
\* C1 (as stated): in UserManager every call of create_user, get_user,
\* update_user, delete_user or list_users, successful or not, makes the audit
\* log exactly one entry longer.
C1_EveryCallAppendsOneEntry ==
    [][(impl = "UserManager" /\ ret'.op \in CrudOps /\ BodyRan(ret'))
         => Len(log_entries') = Len(log_entries) + 1]_vars

\* C1 (amended): in UserManager every call makes the audit log one entry
\* longer, except a successful create_user and a successful delete_user, which
\* make it two entries longer (the success entry, then the e-mail entry).
C1_LogGrowthPerCall ==
    [][(impl = "UserManager" /\ ret'.op \in CrudOps /\ BodyRan(ret'))
         => Len(log_entries') = Len(log_entries)
                + (IF ret'.kind # "raise" /\ ret'.op \in {"create_user", "delete_user"}
                   THEN 2 ELSE 1)]_vars

C1_Witness ==
    /\ impl = "UserManager"
    /\ ret.op = "create_user"
    /\ ret.kind = "view"
    /\ Len(log_entries) = 2

(***************************************************************************)
(* C2                                                                      *)
(***************************************************************************)
\* C2: a create that fails (invalid e-mail, weak password, identifier already
\* present) leaves the stored records, keys and fields, exactly as they were.
C2_FailedCreateChangesNothing ==
    [][(ret'.op = "create_user" /\ ret'.kind = "raise") => users' = users]_vars

C2_Witness ==
    /\ ret.op = "create_user"
    /\ ret.kind = "raise"
    /\ ret.msg = WeakPasswordMsg
    /\ DictHas(users, ret.args.username)
    /\ Svc_is_valid_email(ret.args.email)

(***************************************************************************)
(* C3                                                                      *)
(***************************************************************************)
\* C3 (as stated): for a present identifier, create fails with "User already
\* exists" for every e-mail and every secret, valid or not.
C3_PresentAlwaysAlreadyExists ==
    [][(ret'.op = "create_user" /\ DictHas(users, ret'.args.username))
         => (ret'.kind = "raise" /\ ret'.msg = AlreadyExistsMsg)]_vars

\* C3 (amended): for a present identifier, create fails with a ValueError and
\* stores nothing for every e-mail and every secret; the error is "Invalid
\* email format" when the e-mail is invalid, the weak-password error when the
\* e-mail is valid and the secret weak, and "User already exists" when both
\* pass validation.
C3_PresentCreateFails ==
    [][(ret'.op = "create_user" /\ DictHas(users, ret'.args.username))
         => /\ ret'.kind = "raise"
            /\ ret'.exc = "ValueError"
            /\ users' = users
            /\ ret'.msg = (IF ~Svc_is_valid_email(ret'.args.email) THEN InvalidEmailMsg
                           ELSE IF ~Svc_is_valid_password(ret'.args.password) THEN WeakPasswordMsg
                           ELSE AlreadyExistsMsg)]_vars

C3_Witness ==
    /\ ret.op = "create_user"
    /\ ret.kind = "raise"
    /\ ret.msg = AlreadyExistsMsg
    /\ DictHas(users, ret.args.username)
    /\ DictGet(users, ret.args.username)["email"] # ret.args.email

(***************************************************************************)
(* C4                                                                      *)
(***************************************************************************)
\* C4: for an absent identifier, a valid e-mail and a strong secret, create
\* succeeds and returns a view with that username, that e-mail and is_active
\* true, and a get of the identifier made next returns a view with the same
\* username, e-mail and is_active true.
C4_CreateThenGet ==
    \A username \in Usernames, email \in Emails, password \in Passwords :
        (/\ ~DictHas(users, username)
         /\ Svc_is_valid_email(email)
         /\ Svc_is_valid_password(password))
        => LET c == Svc_create_user(users, log_entries, now, username, email, password)
               g == Svc_get_user(c.users, c.log, now + 1, username)
           IN  /\ c.ret.kind = "view"
               /\ c.ret.view["username"] = username
               /\ c.ret.view["email"] = email
               /\ c.ret.view["is_active"] = TRUE
               /\ g.ret.kind = "view"
               /\ g.ret.view["username"] = username
               /\ g.ret.view["email"] = email
               /\ g.ret.view["is_active"] = TRUE

\* A get that follows the successful create of its identifier.
C4_Witness ==
    /\ ret.op = "get_user"
    /\ ret.kind = "view"
    /\ Len(log_entries) = 3
    /\ log_entries[1].message = <<"User ", ret.args.username, " created successfully">>
    /\ ret.view["is_active"] = TRUE

C7_FailedUpdateChangesNothing ==
    [][(ret'.op = "update_user" /\ DictHas(users, ret'.args.username))
         => LET kwargs == ret'.args.kwargs
            IN  /\ (ret'.kind = "raise" /\ ret'.msg \in {InvalidEmailMsg, WeakPasswordMsg})
                      => users' = users
                /\ (/\ "email" \in DOMAIN kwargs
                    /\ Svc_is_valid_email(kwargs["email"])
                    /\ "password" \in DOMAIN kwargs
                    /\ ~Svc_is_valid_password(kwargs["password"]))
                      => /\ ret'.kind = "raise"
                         /\ ret'.msg = WeakPasswordMsg
                         /\ DictGet(users', ret'.args.username)["email"]
                              = DictGet(users, ret'.args.username)["email"]]_vars

C7_Witness ==
    /\ ret.op = "update_user"
    /\ ret.kind = "raise"
    /\ ret.msg = WeakPasswordMsg
    /\ DictHas(users, ret.args.username)
    /\ "email" \in DOMAIN ret.args.kwargs
    /\ Svc_is_valid_email(ret.args.kwargs["email"])
    /\ DictGet(users, ret.args.username)["email"] # ret.args.kwargs["email"]

(***************************************************************************)
(* C8                                                                      *)
(***************************************************************************)
\* C8: an update of a present identifier that names only fields outside the
\* recognized mutable set (email, is_active, password) succeeds without error
\* and leaves the stored record, and the view returned for it, as they were.
C8_UnrecognizedFieldsIgnored ==
    [][(/\ ret'.op = "update_user"
        /\ BodyRan(ret')
        /\ DictHas(users, ret'.args.username)
        /\ DOMAIN ret'.args.kwargs # {}
        /\ DOMAIN ret'.args.kwargs \cap RecognizedFields = {})
         => /\ ret'.kind = "view"
            /\ users' = users
            /\ ret'.view = ViewOf(DictGet(users, ret'.args.username))]_vars

(***************************************************************************)
(* C9                                                                      *)
(***************************************************************************)
\* C9: no update changes a record's username or created_at: for a present
\* identifier and every set of field changes, those that name username or
\* created_at included, get returns the same username and created_at after
\* the update as before it.
C9_UpdateKeepsIdentityAndCreation ==
    [][(ret'.op = "update_user" /\ DictHas(users, ret'.args.username))
         => LET before == Svc_get_user(users, log_entries, now, ret'.args.username).ret
                after == Svc_get_user(users', log_entries', now', ret'.args.username).ret
            IN  (before.kind = "view" /\ after.kind = "view")
                  => /\ after.view["username"] = before.view["username"]
                     /\ after.view["created_at"] = before.view["created_at"]]_vars

(***************************************************************************)
(* C10                                                                     *)
(***************************************************************************)
IsDigestOfValidSecret(credential) ==
    \E password \in Passwords :
        Svc_is_valid_password(password) /\ credential = Sha256Hex(password)

\* C10: in UserManager and in UserService, after any creates and updates, the
\* credential of every stored record and of every returned view is the digest
\* of a secret that passed the password validator, never a caller's plaintext.
C10_CredentialIsDigest ==
    /\ \A i \in 1..Len(users) : IsDigestOfValidSecret(StoredCredential(users[i].value))
    /\ ret.kind = "view" => IsDigestOfValidSecret(ret.view["password"])
    /\ ret.kind = "list"
         => \A i \in 1..Len(ret.list) : IsDigestOfValidSecret(ret.list[i]["password"])

(***************************************************************************)
(* C11                                                                     *)
(***************************************************************************)
\* The text after the user name in the log entry of a failure.
FailureReason(msg) ==
    CASE msg = InvalidEmailMsg -> ": Invalid email"
      [] msg = WeakPasswordMsg -> ": Weak password"
      [] msg = AlreadyExistsMsg -> ": User already exists"
      [] msg = NotFoundMsg -> ": User not found"

FailureVerb(op) ==
    CASE op = "create_user" -> "Failed to create user "
      [] op = "update_user" -> "Failed to update user "
      [] op = "delete_user" -> "Failed to delete user "

\* C11: every failing operation (create with the invalid-e-mail, weak-password
\* or already-exists error; update with the not-found, invalid-e-mail or
\* weak-password error; delete with the not-found error) appends exactly one
\* audit entry, the entry of that failure, and the entry is in the log when
\* the error reaches the caller.
C11_FailureAppendsOneEntry ==
    [][(/\ ret'.kind = "raise"
        /\ ret'.exc = "ValueError"
        /\ ret'.op \in {"create_user", "update_user", "delete_user"})
         => /\ Len(log_entries') = Len(log_entries) + 1
            /\ SubSeq(log_entries', 1, Len(log_entries)) = log_entries
            /\ log_entries'[Len(log_entries')].message
                 = <<FailureVerb(ret'.op), ret'.args.username, FailureReason(ret'.msg)>>]_vars

\* Three failures in a row, of create, update and delete.
C11_Witness ==
    /\ Len(log_entries) = 3
    /\ ret.kind = "raise"
    /\ ret.op = "delete_user"
    /\ log_entries[1].message = <<"Failed to create user ", Ann, ": Invalid email">>
    /\ log_entries[2].message = <<"Failed to update user ", Bob, ": User not found">>
    /\ log_entries[3].message = <<"Failed to delete user ", Ann, ": User not found">>

(***************************************************************************)
(* C12                                                                     *)
(***************************************************************************)
\* C12: in UserService, when the e-mail service fails while sending the
\* welcome or the goodbye message, create_user still returns the view of the
\* saved record and delete_user still returns True: the failure does not reach
\* the caller, and the repository keeps the change the operation made.
\* The call just made saved or deleted its user and logged that, and no
\* e-mail entry followed: the send raised.
C12_SendFailed(r, log) ==
    /\ r.op \in {"create_user", "delete_user"}
    /\ Len(log) > 0
    /\ log[Len(log)].message
         \in {<<"User ", r.args.username, " created successfully">>,
              <<"User ", r.args.username, " deleted successfully">>}

C12_SendFailureNotRaised ==
    [][(impl = "UserService" /\ C12_SendFailed(ret', log_entries'))
         => /\ ret'.kind # "raise"
            /\ ret'.op = "create_user"
                 => /\ ret'.kind = "view"
                    /\ UserRepository_exists(users', ret'.args.username)
                    /\ ret'.view = User_to_dict(DictGet(users', ret'.args.username))
            /\ ret'.op = "delete_user"
                 => /\ ret'.kind = "bool"
                    /\ ret'.flag
                    /\ ~UserRepository_exists(users', ret'.args.username)]_vars

(***************************************************************************)
(* C13                                                                     *)
(***************************************************************************)
\* C13: the sequence get_logs() returned is a stable snapshot: when a later
\* operation appends entries to the audit log, the length and the contents of
\* the sequence the caller already holds are unchanged.
C13_ReturnedLogsStable ==
    [][(logs # NoRef /\ ret'.op # "get_logs")
         => Deref(logs', log_entries') = Deref(logs, log_entries)]_vars

(***************************************************************************)
(* C14                                                                     *)
(***************************************************************************)
IsPrefix(a, b) == Len(a) <= Len(b) /\ SubSeq(b, 1, Len(a)) = a

\* A str: a sequence of characters.
IsText(s) == DOMAIN s = 1..Len(s) /\ \A k \in 1..Len(s) : s[k] \in STRING

\* A formatted message: literals at the odd places, str values between them.
IsMessage(m) ==
    /\ Len(m) >= 1
    /\ \A k \in 1..Len(m) : IF k % 2 = 1 THEN m[k] \in STRING ELSE IsText(m[k])

IsLogEntry(e) ==
    /\ DOMAIN e = {"timestamp", "message"}
    /\ IsText(e.timestamp)
    /\ IsMessage(e.message)

\* C14: the audit log is append-only: across every step of every operation
\* the log before the step is a prefix of the log after it (no entry removed,
\* rewritten or reordered), and every entry has a string timestamp and a
\* string message.
C14_LogAppendOnly ==
    [][/\ IsPrefix(log_entries, log_entries')
       /\ \A i \in 1..Len(log_entries') : IsLogEntry(log_entries'[i])]_vars

\* Five entries after a create, a delete and a failed delete.
C14_Witness ==
    /\ Len(log_entries) = 5
    /\ now = 3
    /\ ret.op = "delete_user"
    /\ ret.kind = "raise"

(***************************************************************************)
(* C15                                                                     *)
(***************************************************************************)
\* C15: get never raises and never changes the stored records: for an absent
\* identifier (never created, or deleted) it returns None, for a present one
\* it returns that record's view, and in both cases the repository after the
\* call equals the repository before it.
C15_GetNeverRaises ==
    [][ret'.op = "get_user"
         => /\ users' = users
            /\ ret'.kind # "raise"
            /\ ~DictHas(users, ret'.args.username) => ret'.kind = "none"
            /\ DictHas(users, ret'.args.username)
                 => /\ ret'.kind = "view"
                    /\ ret'.view = ViewOf(DictGet(users, ret'.args.username))]_vars

(***************************************************************************)
(* C16                                                                     *)
(***************************************************************************)
\* C16: after any sequence of operations, list returns exactly one view per
\* present identifier and none for an absent one (so its length is the number
\* of present identifiers, 0 at the start and 0 again once every created user
\* is deleted), and it does not change the stored records.
C16_ListOnePerPresent ==
    [][ret'.op = "list_users"
         => /\ users' = users
            /\ ret'.kind = "list"
            /\ Len(ret'.list) = Cardinality(DictKeys(users))
            /\ \A i \in 1..Len(ret'.list) : ret'.list[i]["username"] \in DictKeys(users)
            /\ \A username \in DictKeys(users) :
                   /\ Cardinality({i \in 1..Len(ret'.list) :
                                     ret'.list[i]["username"] = username}) = 1
                   /\ \E i \in 1..Len(ret'.list) :
                          ret'.list[i] = ViewOf(DictGet(users, username))]_vars

(***************************************************************************)
(* C17                                                                     *)
(***************************************************************************)
\* C17: export_users_to_json never raises: it returns True when the write
\* succeeds and False when it fails, appends exactly one audit entry in either
\* case, and leaves the stored user records unchanged in either case.
C17_ExportNeverRaises ==
    [][ret'.op = "export_users_to_json"
         => /\ users' = users
            /\ ret'.kind = "bool"
            /\ ret'.flag = (disk'.written = "ok")
            /\ Len(log_entries') = Len(log_entries) + 1
            /\ IsPrefix(log_entries, log_entries')]_vars

(***************************************************************************)
(* C18                                                                     *)
(***************************************************************************)
\* A call rejected with the weak-password error.
RejectedWeak(r) == r.kind = "raise" /\ r.exc = "ValueError" /\ r.msg = WeakPasswordMsg

\* Letters that are uppercase / lowercase without being in A-Z / a-z.
UpperOther == {"É"}
LowerOther == {"é"}

\* Length at least 8 with an uppercase letter, a lowercase letter and a digit.
StrongOfLetters(password) ==
    /\ Len(password) >= 8
    /\ \E k \in 1..Len(password) : password[k] \in Upper \cup UpperOther
    /\ \E k \in 1..Len(password) : password[k] \in Lower \cup LowerOther
    /\ \E k \in 1..Len(password) : password[k] \in Digit

\* Length at least 8 with one of A-Z, one of a-z and a digit.
StrongOfAscii(password) ==
    /\ Len(password) >= 8
    /\ \E k \in 1..Len(password) : password[k] \in Upper
    /\ \E k \in 1..Len(password) : password[k] \in Lower
    /\ \E k \in 1..Len(password) : password[k] \in Digit

CreatedWithListed(r) ==
    /\ r.op = "create_user"
    /\ r.args.password \in TestInvalidPasswords
    /\ Svc_is_valid_email(r.args.email)

C19_NoLettersStored ==
    /\ CreatedWithListed(ret)
    /\ ret.args.password = PwNoLetters
    /\ ret.kind = "view"

(***************************************************************************)
(* C20                                                                     *)
(***************************************************************************)
EmailValidatorOps == {"is_valid_email", "solution.is_valid_email"}

\* C20: every e-mail validator (UserManager._is_valid_email, and
\* EmailValidator.is_valid of refactored_example.py and of
\* solution/refactored_example.py) returns false for every address that
\* contains two consecutive dots.
C20_ConsecutiveDotsRejected ==
    (ret.op \in EmailValidatorOps /\ HasConsecutiveDots(ret.args.email))
        => ret.flag = FALSE

(***************************************************************************)
(* C21                                                                     *)
(***************************************************************************)
\* local@domain.ext: the local part uses only alphanumerics and . _ + % - and
\* starts and ends with an alphanumeric; the domain starts and ends with an
\* alphanumeric and may hold dots and hyphens in between; the extension is at
\* least two letters.
EmailShape(s) ==
    \E at \in 1..Len(s), dot \in 1..Len(s) :
        /\ at < dot
        /\ s[at] = "@"
        /\ s[dot] = "."
        /\ LET local == SubSeq(s, 1, at - 1)
               dom == SubSeq(s, at + 1, dot - 1)
               ext == SubSeq(s, dot + 1, Len(s))
           IN  /\ Len(local) >= 1
               /\ local[1] \in Alnum
               /\ local[Len(local)] \in Alnum
               /\ AllIn(local, LocalChars)
               /\ Len(dom) >= 1
               /\ dom[1] \in Alnum
               /\ dom[Len(dom)] \in Alnum
               /\ AllIn(dom, DomainChars)
               /\ Len(ext) >= 2
               /\ AllIn(ext, Alpha)

\* C21: UserManager._is_valid_email returns true exactly for the addresses of
\* the shape local@domain.ext described above, and false (never raising) for
\* everything else, including "", "@example.com", "user@" and "user@.com".
C21_ValidExactlyForShape ==
    (ret.op = "is_valid_email" /\ impl = "UserManager")
        => /\ ret.kind = "bool"
           /\ ret.flag = EmailShape(ret.args.email)

(***************************************************************************)
(* C22                                                                     *)
(***************************************************************************)
\* A view without its timestamp.
Untimed(view) == [k \in DOMAIN view \ {"created_at"} |-> view[k]]

\* Two outcomes a caller cannot tell apart, timestamps aside.
SameOutcome(a, b) ==
    /\ a.kind = b.kind
    /\ a.kind = "raise" => (a.exc = b.exc /\ a.msg = b.msg)
    /\ a.kind = "bool" => a.flag = b.flag
    /\ a.kind = "view" => Untimed(a.view) = Untimed(b.view)
    /\ a.kind = "list"
         => /\ Len(a.list) = Len(b.list)
            /\ \A i \in 1..Len(a.list) : Untimed(a.list[i]) = Untimed(b.list[i])

\* C22: run side by side from the empty state on the same sequence of
\* create_user, get_user, update_user, delete_user and list_users calls with
\* the same arguments, UserManager and the refactored UserService return the
\* same views (ignoring timestamps) and raise the same errors at every step.
C22_SameFunctionality ==
    ret.op \in CrudOps => SameOutcome(ret, peer.ret)

(***************************************************************************)
(* C23                                                                     *)
(***************************************************************************)
\* The field names of the view create_user returns.
ViewFieldNames == {"username", "email", "password", "created_at", "is_active"}

\* C23: after any sequence of operations with any arguments, every view
\* returned by create, get, update and list has the same set of field names:
\* username, email, created_at, is_active and password.
C23_ViewFieldsStable ==
    /\ ret.kind = "view" => DOMAIN ret.view = ViewFieldNames
    /\ ret.kind = "list" => \A i \in 1..Len(ret.list) : DOMAIN ret.list[i] = ViewFieldNames

(***************************************************************************)
(* C24                                                                     *)
(***************************************************************************)
\* C24: after any sequence of operations, each live record is stored under
\* exactly one identifier and that identifier equals the record's own username
\* field: no two repository keys lead to the same record, and no key leads to
\* a record whose username differs from the key.
C24_KeyIsUsername ==
    /\ \A i, j \in 1..Len(users) : users[i].key = users[j].key => i = j
    /\ \A i \in 1..Len(users) : users[i].value["username"] = users[i].key
    /\ \A i, j \in 1..Len(users) : users[i].value = users[j].value => i = j

(***************************************************************************)
(* C25                                                                     *)
(***************************************************************************)
\* The digest function of the instance's class.
Svc_encrypt(password) ==
    IF impl = "UserManager"
    THEN UserManager_encrypt_password(password)
    ELSE PasswordEncryption_encrypt(password)

\* The passwords of the model that pass the validator.
ValidSecrets == {s \in Passwords \cup TestPasswords : Svc_is_valid_password(s)}

\* A digest as C25 describes it, for the secret s.
GoodDigest(digest, s) ==
    /\ digest = Svc_encrypt(s)
    /\ Len(digest) = 64
    /\ digest # s
    /\ \A other \in ValidSecrets \ {s} : digest # Svc_encrypt(other)

\* A call that stores the secret it is handed: a successful create, or an
\* update of a present user with a valid password and no invalid e-mail.
StoresSecret(r, us) ==
    \/ r.op = "create_user" /\ r.kind = "view"
    \/ /\ r.op = "update_user"
       /\ BodyRan(r)
       /\ DictHas(us, r.args.username)
       /\ "password" \in DOMAIN r.args.kwargs
       /\ Svc_is_valid_password(r.args.kwargs["password"])
       /\ "email" \in DOMAIN r.args.kwargs => Svc_is_valid_email(r.args.kwargs["email"])

SecretOf(r) == IF r.op = "create_user" THEN r.args.password ELSE r.args.kwargs["password"]

FailedWith(r, msg, log, log1, us, us1) ==
    /\ r.kind = "raise"
    /\ r.exc = "ValueError"
    /\ r.msg = msg
    /\ Len(log1) = Len(log) + 1
    /\ us1 = us

\* C26: create checks the e-mail format, then the password strength, then
\* existence, and stops at the first failure: with an invalid e-mail it fails
\* with "Invalid email format" whatever the secret and the identifier; with a
\* valid e-mail and a weak secret it fails with the weak-password error whether
\* or not the identifier is present; "User already exists" is reported only
\* when both validations pass.
C26_CreateCheckOrder ==
    [][ret'.op = "create_user"
         => /\ ~Svc_is_valid_email(ret'.args.email)
                 => FailedWith(ret', InvalidEmailMsg, log_entries, log_entries', users, users')
            /\ (Svc_is_valid_email(ret'.args.email) /\ ~Svc_is_valid_password(ret'.args.password))
                 => FailedWith(ret', WeakPasswordMsg, log_entries, log_entries', users, users')
            /\ (ret'.kind = "raise" /\ ret'.msg = AlreadyExistsMsg)
                 => /\ Svc_is_valid_email(ret'.args.email)
                    /\ Svc_is_valid_password(ret'.args.password)
                    /\ DictHas(users, ret'.args.username)]_vars

\* A create for a present identifier, with an invalid e-mail and a weak
\* secret, failed on the e-mail.
C26_Witness ==
    /\ ret.op = "create_user"
    /\ ret.kind = "raise"
    /\ ret.msg = InvalidEmailMsg
    /\ ~Svc_is_valid_password(ret.args.password)
    /\ DictHas(users, ret.args.username)

(***************************************************************************)
(* C27                                                                     *)
(***************************************************************************)
\* The text holds the word somewhere inside it.
Contains(text, word) ==
    \E k \in 1..(Len(text) - Len(word) + 1) : SubSeq(text, k, k + Len(word) - 1) = word

\* The passwords the calls of a run pass to create and to update.
PassedSecrets == Passwords \cup {kw["password"] : kw \in {k \in UpdateKwargs : "password" \in DOMAIN k}}

\* The values a message was formatted from.
MessageValues(m) == {m[k] : k \in {j \in 1..Len(m) : j % 2 = 0}}

\* C27: no audit entry ever contains a plaintext secret: after any sequence of
\* create and update calls, successful or failed, no message in the audit log
\* contains a password value that was passed to create or update.
C27_NoSecretInLog ==
    \A i \in 1..Len(log_entries) :
        \A value \in MessageValues(log_entries[i].message) :
            \A secret \in PassedSecrets : ~Contains(value, secret)

\* The log holds the entries of a successful create and of an update that was
\* rejected for its weak password.
C27_Witness ==
    /\ ret.op = "update_user"
    /\ RejectedWeak(ret)
    /\ Len(log_entries) = 3
    /\ log_entries[1].message = <<"User ", ret.args.username, " created successfully">>

(***************************************************************************)
(* C28                                                                     *)
(***************************************************************************)
\* The entry a sent e-mail leaves in the log.
IsWelcome(e) == e.message[1] = "Welcome email sent to "
IsGoodbye(e) == e.message[1] = "Goodbye email sent to "

\* C28: a notification is dispatched only after the repository change and the
\* success audit entry of its operation: the creation notice goes to the
\* e-mail passed to create, and the deletion notice goes to the e-mail the
\* record held immediately before the deletion (the one set by the latest
\* successful update, not the one given at creation).
C28_NotifyAfterChange ==
    [][/\ IsPrefix(log_entries, log_entries')
       /\ \A i \in (Len(log_entries) + 1)..Len(log_entries') :
              LET e == log_entries'[i]
              IN  /\ IsWelcome(e)
                       => /\ ret'.op = "create_user"
                          /\ i = Len(log_entries) + 2
                          /\ i = Len(log_entries')
                          /\ log_entries'[i - 1].message
                                = <<"User ", ret'.args.username, " created successfully">>
                          /\ ~DictHas(users, ret'.args.username)
                          /\ DictHas(users', ret'.args.username)
                          /\ e.message[2] = ret'.args.email
                  /\ IsGoodbye(e)
                       => /\ ret'.op = "delete_user"
                          /\ i = Len(log_entries) + 2
                          /\ i = Len(log_entries')
                          /\ log_entries'[i - 1].message
                                = <<"User ", ret'.args.username, " deleted successfully">>
                          /\ DictHas(users, ret'.args.username)
                          /\ ~DictHas(users', ret'.args.username)
                          /\ e.message[2] = DictGet(users, ret'.args.username)["email"]
       /\ (ret'.op = "create_user" /\ ret'.kind = "view")
            => IsWelcome(log_entries'[Len(log_entries')])
       /\ (ret'.op = "delete_user" /\ ret'.kind = "bool")
            => IsGoodbye(log_entries'[Len(log_entries')])]_vars

\* A user created with one address, updated to another and deleted: the
\* goodbye went to the second address.
C28_Witness ==
    /\ ret.op = "delete_user"
    /\ ret.kind = "bool"
    /\ Len(log_entries) = 5
    /\ IsWelcome(log_entries[2])
    /\ log_entries[2].message[2] = EmailAnn
    /\ IsGoodbye(log_entries[5])
    /\ log_entries[5].message[2] = EmailAB
    /\ log_entries[5].message[4] = log_entries[2].message[4]

(***************************************************************************)
(* C29                                                                     *)
(***************************************************************************)
\* The thread's call has passed the existence check.
PassedCheck(c) == c.pc \in {"store", "log", "send"} \/ (c.pc = "done" /\ c.ret.kind = "view")

\* The thread's call has put its record in the repository.
HasStored(c) == c.pc \in {"log", "send"} \/ (c.pc = "done" /\ c.ret.kind = "view")

\* C29: when two create calls for the same absent identifier are interleaved
\* step by step, the existence check and the insertion of each being separate
\* steps, at most one of them passes the existence check and succeeds; the
\* other fails with "User already exists", and the record stored first is not
\* overwritten.
C29_OneCreateWins ==
    \A a, b \in Threads :
        (a # b /\ threads[a].args.username = threads[b].args.username)
            => /\ ~(PassedCheck(threads[a]) /\ PassedCheck(threads[b]))
               /\ (HasStored(threads[a]) /\ threads[b].pc = "done")
                    => /\ threads[b].ret.kind = "raise"
                       /\ DictGet(users, threads[a].args.username) = threads[a].record

(***************************************************************************)
(* C30                                                                     *)
(***************************************************************************)
\* The call that has just returned succeeded as the named operation on the
\* identifier.
Succeeded(r, op, kind, username) ==
    r.op = op /\ r.kind = kind /\ r.args.username = username

\* C30: each identifier moves between absent and present only through
\* successful operations: it becomes present only by a successful create,
\* becomes absent only by a successful delete, and stays in its state across
\* every get, list, update, export and every failed operation.
C30_PresenceChangesOnlyBySuccess ==
    [][\A username \in Usernames :
          LET before == DictHas(users, username)
              after == DictHas(users', username)
              created == Succeeded(ret', "create_user", "view", username)
              deleted == Succeeded(ret', "delete_user", "bool", username)
          IN  /\ (~before /\ after) <=> created
              /\ (before /\ ~after) <=> deleted
              /\ (ret'.kind = "raise"
                  \/ ret'.op \in {"get_user", "list_users", "update_user",
                                  "export_users_to_json", "get_logs"})
                   => after = before]_vars

(***************************************************************************)
(* C31                                                                     *)
(***************************************************************************)
\* The messages of the entries a call has appended, in order.
Appended(log, log1) ==
    IF IsPrefix(log, log1)
    THEN [i \in 1..(Len(log1) - Len(log)) |-> log1[Len(log) + i].message]
    ELSE <<"not appended">>

\* C31: in UserManager a successful create_user appends exactly two audit
\* entries in this order: "User <name> created successfully", then the
\* welcome-email entry; a successful delete_user appends exactly two in this
\* order: "User <name> deleted successfully", then the goodbye-email entry;
\* successful get_user, update_user and list_users append exactly one.
C31_SuccessEntries ==
    [][impl = "UserManager" =>
         LET new == Appended(log_entries, log_entries')
             name == ret'.args.username
         IN  /\ (ret'.op = "create_user" /\ ret'.kind = "view")
                  => /\ Len(new) = 2
                     /\ new[1] = <<"User ", name, " created successfully">>
                     /\ new[2] = <<"Welcome email sent to ", ret'.args.email,
                                   ": Welcome ", name,
                                   "! Your account has been created successfully.">>
             /\ (ret'.op = "delete_user" /\ ret'.kind = "bool" /\ ret'.flag)
                  => /\ Len(new) = 2
                     /\ new[1] = <<"User ", name, " deleted successfully">>
                     /\ new[2] = <<"Goodbye email sent to ",
                                   DictGet(users, name)["email"],
                                   ": Goodbye ", name,
                                   "! Your account has been deleted.">>
             /\ (ret'.op = "get_user" /\ ret'.kind = "view")
                  => new = << <<"User ", name, " retrieved successfully">> >>
             /\ (ret'.op = "update_user" /\ ret'.kind = "view")
                  => new = << <<"User ", name, " updated successfully">> >>
             /\ (ret'.op = "list_users" /\ ret'.kind = "list")
                  => new = << <<"User list retrieved">> >>]_vars

\* A create, an update and a delete, all successful, have left five entries.
C31_Witness ==
    /\ impl = "UserManager"
    /\ ret.op = "delete_user"
    /\ ret.kind = "bool"
    /\ Len(log_entries) = 5
    /\ log_entries[3].message[3] = " updated successfully"
    /\ log_entries[4].message[3] = " deleted successfully"

(***************************************************************************)
(* C32                                                                     *)
(***************************************************************************)
\* How many welcome / goodbye e-mails the log shows as sent.
WelcomeCount(log) == Cardinality({i \in 1..Len(log) : IsWelcome(log[i])})
GoodbyeCount(log) == Cardinality({i \in 1..Len(log) : IsGoodbye(log[i])})

\* C32: notifications are sent only by a successful create and a successful
\* delete: no failed operation, and no get, update, list or export, sends a
\* welcome or goodbye message, so the number of welcome messages equals the
\* number of successful creates and the number of goodbye messages equals the
\* number of successful deletes.
C32_NotifyOnlyOnSuccess ==
    [][/\ WelcomeCount(log_entries') - WelcomeCount(log_entries)
            = IF ret'.op = "create_user" /\ ret'.kind = "view" THEN 1 ELSE 0
       /\ GoodbyeCount(log_entries') - GoodbyeCount(log_entries)
            = IF ret'.op = "delete_user" /\ ret'.kind = "bool" /\ ret'.flag THEN 1 ELSE 0]_vars

\* One create and one delete have succeeded, one e-mail of each kind has been
\* sent, and the call after them failed.
C32_Witness ==
    /\ ret.kind = "raise"
    /\ WelcomeCount(log_entries) = 1
    /\ GoodbyeCount(log_entries) = 1
    /\ Len(users) = 0

(***************************************************************************)
(* C33                                                                     *)
(***************************************************************************)
\* The call that has just returned was a create, update or delete that
\* succeeded.
ChangeSucceeded(r) ==
    \/ r.op \in {"create_user", "update_user"} /\ r.kind = "view"
    \/ r.op = "delete_user" /\ r.kind = "bool" /\ r.flag

\* C33: a successful create, update or delete on identifier i leaves the
\* record of every other identifier j unchanged and leaves j present or absent
\* as it was, in UserManager and in UserService, for every argument of the
\* call.
C33_OthersUntouched ==
    [][ChangeSucceeded(ret') =>
         \A j \in Usernames \ {ret'.args.username} :
             /\ DictHas(users', j) = DictHas(users, j)
             /\ DictHas(users, j) => DictGet(users', j) = DictGet(users, j)]_vars

(***************************************************************************)
(* C34                                                                     *)
(***************************************************************************)
\* C34: a successful update never changes which identifiers are present: in
\* UserService the set of repository keys after update_user equals the set
\* before it, for every set of keyword arguments.
C34_UpdateKeepsKeys ==
    [][(impl = "UserService" /\ ret'.op = "update_user" /\ ret'.kind = "view")
         => DictKeys(users') = DictKeys(users)]_vars

(***************************************************************************)
(* C35                                                                     *)
(***************************************************************************)
\* C35: a successful update changes only the fields it names: updating the
\* email of a present record leaves its username, password digest, created_at
\* and is_active unchanged, and updating the password leaves its username,
\* email, created_at and is_active unchanged.  (In UserManager, whatever the
\* keywords, every field of the record that is not named keeps its value.)
C35_UpdateChangesNamedOnly ==
    [][(ret'.op = "update_user" /\ ret'.kind = "view") =>
         LET username == ret'.args.username
             kwargs == ret'.args.kwargs
             old == ViewOf(DictGet(users, username))
             new == ViewOf(DictGet(users', username))
         IN  /\ DOMAIN kwargs = {"email"}
                  => /\ new = [old EXCEPT !["email"] = kwargs["email"]]
                     /\ ret'.view = new
             /\ DOMAIN kwargs = {"password"}
                  => /\ new = [old EXCEPT !["password"] = Svc_encrypt(kwargs["password"])]
                     /\ ret'.view = new
             /\ impl = "UserManager"
                  => \A k \in DOMAIN old \ DOMAIN kwargs : new[k] = old[k]]_vars

\* A user created with one address has had the address and then the password
\* updated.
C35_Witness ==
    /\ ret.op = "update_user"
    /\ ret.kind = "view"
    /\ DOMAIN ret.args.kwargs = {"password"}
    /\ Len(log_entries) = 4
    /\ log_entries[2].message[2] = EmailAnn
    /\ log_entries[3].message[3] = " updated successfully"
    /\ ret.view["email"] = EmailAB
    /\ ret.view["password"] = Svc_encrypt(Secret12)

(***************************************************************************)
(* Runs of create_user, update_user and delete_user only                   *)
(***************************************************************************)
RecreateNames == {Ann}

Re_CreateUser ==
    /\ now < MaxCalls
    /\ \E username \in RecreateNames, email \in Emails, password \in Passwords :
           Apply(Svc_create_user(users, log_entries, now, username, email, password))

Re_UpdateUser ==
    /\ now < MaxCalls
    /\ \E username \in RecreateNames, kwargs \in UpdateKwargs :
           Apply(Svc_update_user(users, log_entries, now, username, kwargs))

Re_DeleteUser ==
    /\ now < MaxCalls
    /\ \E username \in RecreateNames :
           Apply(Svc_delete_user(users, log_entries, now, username))

NextRecreate ==
    \/ Re_CreateUser
    \/ Re_UpdateUser
    \/ Re_DeleteUser

SpecRecreate == Init /\ [][NextRecreate]_vars

(***************************************************************************)
(* C36                                                                     *)
(***************************************************************************)
\* C36: an identifier that was deleted can be created again: after create(i),
\* any updates and delete(i), a create(i, e2, s2) with valid e2 and s2
\* succeeds, and the new record has email e2, the digest of s2 and is_active
\* true, with no field carried over from the deleted record (including an
\* is_active that was set to false or fields added by update).
C36_RecreateIsFresh ==
    [][(/\ ret.op = "delete_user" /\ ret.kind = "bool" /\ ret.flag
        /\ ret'.op = "create_user"
        /\ ret'.args.username = ret.args.username
        /\ Svc_is_valid_email(ret'.args.email)
        /\ Svc_is_valid_password(ret'.args.password))
         => /\ ret'.kind = "view"
            /\ DictHas(users', ret'.args.username)
            /\ ret'.view = ViewOf(DictGet(users', ret'.args.username))
            /\ ret'.view = ("username" :> ret'.args.username
                            @@ "email" :> ret'.args.email
                            @@ "password" :> Svc_encrypt(ret'.args.password)
                            @@ "created_at" :> IsoFormat(now)
                            @@ "is_active" :> TRUE)
            /\ DOMAIN DictGet(users', ret'.args.username) \ {ObjectId}
                 = IF impl = "UserManager"
                   THEN {"username", "email", "password", "created_at", "is_active"}
                   ELSE {"username", "email", "encrypted_password", "created_at", "is_active"}]_vars

\* A user was created, updated, deleted and created again with another
\* address.
C36_Witness ==
    /\ ret.op = "create_user"
    /\ ret.kind = "view"
    /\ Len(log_entries) = 7
    /\ log_entries[2].message[2] = EmailAnn
    /\ log_entries[3].message = <<"User ", ret.args.username, " updated successfully">>
    /\ log_entries[4].message = <<"User ", ret.args.username, " deleted successfully">>
    /\ ret.args.email = EmailAB

(***************************************************************************)
(* C37                                                                     *)
(***************************************************************************)
\* The local part is a single alphanumeric character.
SingleCharLocal(s) == Len(s) >= 2 /\ s[1] \in Alnum /\ s[2] = "@"

\* C37: UserManager._is_valid_email requires a local part of at least two
\* characters: every address whose local part is a single alphanumeric
\* character (such as "a@example.com") is rejected, and create with such an
\* address fails with InvalidEmail.
C37_OneCharLocalRejected ==
    SingleCharLocal(ret.args.email) =>
        /\ (ret.op = "is_valid_email" /\ impl = "UserManager") => ret.flag = FALSE
        /\ ret.op = "solution.is_valid_email" => ret.flag = FALSE
        /\ ret.op = "create_user"
             => /\ ret.kind = "raise"
                /\ ret.exc = "ValueError"
                /\ ret.msg = InvalidEmailMsg
                /\ ~DictHas(users, ret.args.username)
                /\ log_entries[Len(log_entries)].message
                     = <<"Failed to create user ", ret.args.username, ": Invalid email">>

\* create_user was called with an address that is well-formed but for its
\* one-character local part.
C37_Witness ==
    /\ ret.op = "create_user"
    /\ SingleCharLocal(ret.args.email)
    /\ EmailShape(ret.args.email)
    /\ ret.kind = "raise"

====
